---- MODULE Spec2Model ----
(***************************************************************************)
(* A model of the playtimed daemon (src/src/playtimed/main.py, db.py,     *)
(* router.py): the scan loop, the per-user tick (_process_user), the       *)
(* process scan, the enforcer (_kill_process), the safety exclusion rules  *)
(* and the daily-summary accounting rows.                                  *)
(*                                                                         *)
(* Text (process names, command lines, regular expressions) is modelled as *)
(* sequences of one-character strings so that the substring and suffix     *)
(* tests of the code are computed, not assumed.                            *)
(***************************************************************************)
EXTENDS Integers, Sequences, FiniteSets, TLC

VARIABLES
    clock,        \* wall clock (seconds; day 0 is a Monday)
    alive,        \* pids of the running processes (the OS process table)
    dbMode,       \* daemon_config.mode in the Store
    userLimits,   \* user_limits rows: user -> row
    summary,      \* daily_summary rows: <<date, user>> -> row or NoRow
    hourly,       \* hourly_activity rows: <<date, hour, user>> -> gaming seconds
    sessions,     \* sessions table: sequence of rows, id = index
    events,       \* events table, as the set of rows logged
    patterns,     \* process_patterns table: sequence of rows, id = index
    seenPids,     \* seen_pids table: set of <<pattern_id, pid>>
    mode,         \* ClaudeDaemon.mode
    users,        \* ClaudeDaemon.users
    activeGames,  \* ClaudeDaemon.active_games: user -> (pid -> ProcessMatch)
    candidates,   \* ClaudeDaemon.discovery_candidates
    strictPending,\* ClaudeDaemon.strict_pending
    loopCount,    \* run(): loop_count, kept modulo ReloadEvery
    running,      \* ClaudeDaemon.running
    messageLog,   \* message_log table: <<date, user, intention>> -> rows logged
    tickLog,      \* what the last loop iteration did, in order (history)
    signalled,    \* pids that were ever sent a signal by the daemon (history)
    store,        \* the database file as migrate_db sees it: columns, rows
    sinceWrite,   \* iterations of run begun since daemon_config.mode was
                  \* last written, counted up to ReloadEvery (history)
    browserCandidates, \* BrowserMonitor._candidates of each user's monitor
    born          \* pid -> when the process that holds the pid started
                  \* (history, kept where StartProcAt starts the process)

vars == <<clock, alive, dbMode, userLimits, summary, hourly, sessions, events,
          patterns, seenPids, mode, users, activeGames, candidates,
          strictPending, loopCount, running, messageLog, tickLog, signalled,
          store, sinceWrite, browserCandidates,
                   born>>

-----------------------------------------------------------------------------
(* Text *)

Lower(c) ==
    CASE c = "A" -> "a" [] c = "B" -> "b" [] c = "E" -> "e" [] c = "G" -> "g"
      [] c = "M" -> "m" [] c = "S" -> "s"
      [] c = "P" -> "p" [] c = "R" -> "r" [] c = "X" -> "x" [] OTHER -> c

LowerStr(s) == [i \in 1..Len(s) |-> Lower(s[i])]

HasAt(hay, needle, i) ==
    /\ i >= 1
    /\ i + Len(needle) - 1 <= Len(hay)
    /\ \A j \in 1..Len(needle) : hay[i + j - 1] = needle[j]

Contains(hay, needle) == \E i \in 1..(Len(hay) + 1) : HasAt(hay, needle, i)

EndsWith(hay, needle) == HasAt(hay, needle, Len(hay) - Len(needle) + 1)

\* A regular expression of the catalogue: a literal, optionally anchored.
Rx(lit, atStart, atEnd) == [lit |-> lit, atStart |-> atStart, atEnd |-> atEnd]

\* re.search(pattern, text, re.IGNORECASE)
Search(rx, text) ==
    LET h == LowerStr(text)
        n == LowerStr(rx.lit)
    IN  CASE rx.atStart /\ rx.atEnd -> h = n
          [] rx.atStart -> HasAt(h, n, 1)
          [] rx.atEnd -> EndsWith(h, n)
          [] OTHER -> Contains(h, n)

\* re.escape(name): the name as a literal
Escape(name) == Rx(name, FALSE, FALSE)

s_python == <<"p","y","t","h","o","n">>
s_playtimed == <<"p","l","a","y","t","i","m","e","d">>
s_playtimed_main == <<"p","l","a","y","t","i","m","e","d",".","m","a","i","n">>
s_python3 == <<"p","y","t","h","o","n","3">>
s_daemon_cmd == <<"p","y","t","h","o","n","3"," ","-","m"," ",
                  "p","l","a","y","t","i","m","e","d",".","m","a","i","n">>
s_doas == <<"d","o","a","s">>
s_bash == <<"b","a","s","h">>
s_sh == <<"s","h">>
s_sudo == <<"s","u","d","o">>
s_systemd == <<"s","y","s","t","e","m","d">>
s_retroarch == <<"r","e","t","r","o","a","r","c","h">>
s_bash_retroarch == <<"b","a","s","h"," ","r","e","t","r","o","a","r","c","h">>
s_gamescope == <<"g","a","m","e","s","c","o","p","e">>
s_factorio == <<"f","a","c","t","o","r","i","o">>
s_miner == <<"m","i","n","e","r">>
s_exe == <<".","e","x","e">>
s_g == <<"g">>
s_g_exe == <<"g",".","e","x","e">>
s_ProtonGame == <<"P","r","o","t","o","n"," ","G","a","m","e">>
s_RetroArch == <<"R","e","t","r","o","A","r","c","h">>
s_Miner == <<"M","i","n","e","r">>
s_SteamGame == <<"S","t","e","a","m"," ","G","a","m","e">>
s_ixl_com == <<"i","x","l",".","c","o","m">>
s_poki_com == <<"p","o","k","i",".","c","o","m">>
s_gvt1_com == <<"g","v","t","1",".","c","o","m">>
s_a_gvt1_com == <<"a",".","g","v","t","1",".","c","o","m">>
s_recaptcha_net == <<"r","e","c","a","p","t","c","h","a",".","n","e","t">>
s_chrome == <<"c","h","r","o","m","e">>
s_unknown_tab == <<"u","n","k","n","o","w","n",":","t","a","b">>
s_unknown == <<"u","n","k","n","o","w","n",":">>
s_dot == <<".">>

-----------------------------------------------------------------------------
(* The process table.  Each pid of the universe runs a fixed program. *)

OurPid == 10

ParentPid == 9

\* pid -> [name, cmdline, user, ppid]
ProcTable ==
    (9  :> [name |-> s_doas, cmdline |-> s_doas, user |-> "anders", ppid |-> 1]) @@
    (10 :> [name |-> s_python3, cmdline |-> s_daemon_cmd, user |-> "root", ppid |-> 9]) @@
    (21 :> [name |-> s_retroarch, cmdline |-> s_retroarch, user |-> "anders", ppid |-> 1]) @@
    (22 :> [name |-> s_bash, cmdline |-> s_bash_retroarch, user |-> "anders", ppid |-> 1]) @@
    (23 :> [name |-> s_gamescope, cmdline |-> s_gamescope, user |-> "anders", ppid |-> 1]) @@
    (24 :> [name |-> s_factorio, cmdline |-> s_factorio, user |-> "anders", ppid |-> 1]) @@
    (25 :> [name |-> s_miner, cmdline |-> s_miner, user |-> "anders", ppid |-> 1]) @@
    (26 :> [name |-> s_sh, cmdline |-> s_sh, user |-> "anders", ppid |-> 21]) @@
    (27 :> [name |-> s_g_exe, cmdline |-> s_g_exe, user |-> "anders", ppid |-> 1]) @@
    (28 :> [name |-> s_g_exe, cmdline |-> s_g_exe, user |-> "anders", ppid |-> 1]) @@
    (31 :> [name |-> s_factorio, cmdline |-> s_factorio, user |-> "bea", ppid |-> 1])

Pids == DOMAIN ProcTable

ProcName(p) == ProcTable[p].name

ProcCmdline(p) == ProcTable[p].cmdline

ProcUser(p) == ProcTable[p].user

ProcPpid(p) == ProcTable[p].ppid

\* The users of the user_limits table, in row order
UserRows == <<"anders", "bea">>

AllUsers == {UserRows[i] : i \in 1..Len(UserRows)}

\* ClaudeDaemon.SYSTEM_PROCESSES (the members the universe can name)
SYSTEM_PROCESSES == {s_systemd, s_sudo}

\* ClaudeDaemon.SHELL_PROCESSES
SHELL_PROCESSES == {s_bash, s_sh}

\* ClaudeDaemon._is_excluded_process
IsExcludedProcess(procName, cmdline, pid) ==
    \/ pid = OurPid
    \/ (pid \in Pids /\ ProcPpid(pid) = OurPid)
    \/ procName \in SYSTEM_PROCESSES
    \/ procName \in SHELL_PROCESSES
    \/ /\ Contains(LowerStr(procName), s_playtimed)
       /\ Contains(LowerStr(cmdline), s_python)
       /\ Contains(cmdline, s_playtimed_main)

-----------------------------------------------------------------------------
(* Time *)

PollInterval == 30

StrictGraceSeconds == 30

KillWaitSeconds == 10

ReloadEvery == 10

HourSeconds == 60 * 60

DaySeconds == 24 * HourSeconds

\* The model starts two polls before the midnight that ends Monday.
StartClock == DaySeconds - 2 * PollInterval

\* Number of poll intervals of wall-clock time the model covers.
Horizon == 5

MaxClock == StartClock + Horizon * PollInterval

NoTime == -1

\* The model's wall clock stops at ClockCap.
ClockCap == MaxClock

Date(t) == t \div DaySeconds

Weekday(t) == Date(t) % 7

HourOf(t) == (t % DaySeconds) \div HourSeconds

\* Every date a write of the model can fall on.
Dates == 0..Date(ClockCap)

Min(a, b) == IF a < b THEN a ELSE b

Max(a, b) == IF a > b THEN a ELSE b

\* The wall clock d seconds after t
After(t, d) == Min(t + d, ClockCap)

-----------------------------------------------------------------------------
(* The Store: daily_summary, hourly_activity, sessions, events *)

NoRow ==
    [present |-> FALSE, total_time |-> 0, gaming_time |-> 0, session_count |-> 0,
     enforcements |-> 0, gaming_active |-> 0, last_poll_at |-> NoTime,
     warned_30 |-> 0, warned_15 |-> 0, warned_5 |-> 0]

\* The column defaults of a freshly inserted daily_summary row.
DefaultRow == [NoRow EXCEPT !.present = TRUE]

\* Cap of the counters that a tick can raise without time passing.
MaxCount == 3

Sat(n) == Min(n, MaxCount)

\* ActivityDB.update_daily_summary (INSERT ... ON CONFLICT DO UPDATE)
UpdateDailySummary(sum, t, user, gamingSeconds, totalSeconds, enf) ==
    LET k == <<Date(t), user>>
        r == IF sum[k].present THEN sum[k] ELSE DefaultRow
    IN  [sum EXCEPT ![k] = [r EXCEPT !.gaming_time = @ + gamingSeconds,
                                     !.total_time = @ + totalSeconds,
                                     !.enforcements = Sat(@ + enf)]]

\* ActivityDB.increment_session_count
IncrementSessionCount(sum, t, user) ==
    LET k == <<Date(t), user>>
        r == IF sum[k].present THEN sum[k] ELSE DefaultRow
    IN  [sum EXCEPT ![k] = [r EXCEPT !.session_count = Sat(@ + 1)]]

\* ActivityDB.get_user_state: today's row, or none
GetUserState(sum, t, user) == sum[<<Date(t), user>>]

\* ActivityDB.get_time_used_today: <<total_time, gaming_time>>
GetTimeUsedToday(sum, t, user) ==
    LET r == sum[<<Date(t), user>>]
    IN  IF r.present THEN <<r.total_time, r.gaming_time>> ELSE <<0, 0>>

\* ActivityDB.update_user_state as _process_user calls it (upsert)
UpdateUserState(sum, t, user, gamingActive, gamingTime, lastPollAt, w30, w15, w5) ==
    LET k == <<Date(t), user>>
        r == IF sum[k].present THEN sum[k] ELSE DefaultRow
    IN  [sum EXCEPT ![k] = [r EXCEPT !.gaming_active = gamingActive,
                                     !.gaming_time = gamingTime,
                                     !.last_poll_at = lastPollAt,
                                     !.warned_30 = w30,
                                     !.warned_15 = w15,
                                     !.warned_5 = w5]]

\* ActivityDB.update_hourly_activity
UpdateHourlyActivity(hrs, t, user, gamingSeconds) ==
    LET k == <<Date(t), HourOf(t), user>>
    IN  IF k \in DOMAIN hrs THEN [hrs EXCEPT ![k] = @ + gamingSeconds]
        ELSE hrs @@ (k :> gamingSeconds)

\* ActivityDB.start_session: the new table; the new row's id is its length
StartSession(sess, user, app, pid) ==
    Append(sess, [user |-> user, app |-> app, pid |-> pid,
                  open |-> TRUE, end_reason |-> "none"])

\* ActivityDB.end_session(session_id=..., reason=...)
EndSession(sess, id, reason) ==
    IF id \in 1..Len(sess) /\ sess[id].open
    THEN [sess EXCEPT ![id] = [@ EXCEPT !.open = FALSE, !.end_reason = reason]]
    ELSE sess

\* ActivityDB.log_event
LogEvent(ev, user, type, pid, details) ==
    ev \cup {[user |-> user, type |-> type, pid |-> pid, details |-> details]}

\* ActivityDB.get_user_limits
GetUserLimits(lim, user) == lim[user]

\* ActivityDB.get_schedule
GetSchedule(lim, user) == lim[user].schedule

\* ActivityDB.get_daily_limits
GetDailyLimits(lim, user) == lim[user].daily_limits

-----------------------------------------------------------------------------
(* The Store: process_patterns, seen_pids *)

NoOwner == "NULL"

NoCategory == "NULL"

\* The characters of the universe in byte order (SQLite's BINARY collation).
ByteOrder ==
    <<" ", "-", ".", "3", "A", "B", "E", "G", "M", "P", "R", "S", "X",
      "a", "b", "c", "d", "e", "f", "g", "h", "i", "j", "k", "l", "m",
      "n", "o", "p", "q", "r", "s", "t", "u", "v", "w", "x", "y", "z">>

CharCode(c) == CHOOSE i \in 1..Len(ByteOrder) : ByteOrder[i] = c

RECURSIVE LexLess(_, _)
LexLess(a, b) ==
    IF Len(b) = 0 THEN FALSE
    ELSE IF Len(a) = 0 THEN TRUE
    ELSE IF CharCode(Head(a)) # CharCode(Head(b))
         THEN CharCode(Head(a)) < CharCode(Head(b))
         ELSE LexLess(Tail(a), Tail(b))

StateRank(st) ==
    CASE st = "active" -> 1 [] st = "disallowed" -> 2
      [] st = "discovered" -> 3 [] OTHER -> 4

\* ORDER BY CASE WHEN owner IS NOT NULL THEN 0 ELSE 1 END, monitor_state, name
PatternBefore(pat, i, j) ==
    LET oi == IF pat[i].owner # NoOwner THEN 0 ELSE 1
        oj == IF pat[j].owner # NoOwner THEN 0 ELSE 1
        si == StateRank(pat[i].monitor_state)
        sj == StateRank(pat[j].monitor_state)
    IN  IF oi # oj THEN oi < oj
        ELSE IF si # sj THEN si < sj
        ELSE IF pat[i].name # pat[j].name THEN LexLess(pat[i].name, pat[j].name)
        ELSE i < j

RECURSIVE SortPatterns(_, _)
SortPatterns(pat, S) ==
    IF S = {} THEN <<>>
    ELSE LET m == CHOOSE i \in S : \A j \in S \ {i} : PatternBefore(pat, i, j)
         IN  <<m>> \o SortPatterns(pat, S \ {m})

\* get_patterns without "(owner = ? OR owner IS NULL)"
GetPatternsAnyOwner(pat, category, includeAllStates, owner) ==
    SortPatterns(pat,
        {i \in 1..Len(pat) :
            /\ (category = NoCategory \/ pat[i].category = category)
            /\ pat[i].enabled
            /\ (includeAllStates \/ pat[i].monitor_state = "active")})

\* ActivityDB.get_patterns(category, enabled_only=True, include_all_states, owner):
\* the ids of the rows, in the query's order
GetPatterns(pat, category, includeAllStates, owner) ==
    SortPatterns(pat,
        {i \in 1..Len(pat) :
            /\ (category = NoCategory \/ pat[i].category = category)
            /\ pat[i].enabled
            /\ (includeAllStates \/ pat[i].monitor_state = "active")
            /\ (pat[i].owner = owner \/ pat[i].owner = NoOwner)})

\* ActivityDB.get_pattern_by_name_and_owner: a row id, or 0
GetPatternByNameAndOwner(pat, name, owner) ==
    LET S == {i \in 1..Len(pat) :
                 pat[i].name = name /\ (pat[i].owner = owner \/ pat[i].owner = NoOwner)}
    IN  IF S = {} THEN 0 ELSE CHOOSE i \in S : \A j \in S : i <= j

\* ActivityDB.discover_pattern: the table with the new row appended
DiscoverPattern(pat, rx, name, owner, cpuThreshold, category, state, t) ==
    Append(pat, [pattern |-> rx, name |-> name, category |-> category,
                 monitor_state |-> state, owner |-> owner, enabled |-> TRUE,
                 cpu_threshold |-> cpuThreshold, unique_pid_count |-> 0,
                 total_runtime_seconds |-> 0, last_seen |-> t,
                 pattern_type |-> "process"])

\* ClaudeDaemon._match_process_to_pattern: the first id of ids that matches, or 0
RECURSIVE MatchProcessToPattern(_, _, _, _, _)
MatchProcessToPattern(pat, procName, cmdline, ids, i) ==
    IF i > Len(ids) THEN 0
    ELSE IF Search(pat[ids[i]].pattern, cmdline) \/ Search(pat[ids[i]].pattern, procName)
         THEN ids[i]
         ELSE MatchProcessToPattern(pat, procName, cmdline, ids, i + 1)

-----------------------------------------------------------------------------
(* The state a tick threads through its calls: a record W. *)

Remove(f, k) == [x \in DOMAIN f \ {k} |-> f[x]]

RECURSIVE SeqOfSet(_)
SeqOfSet(S) ==
    IF S = {} THEN <<>>
    ELSE LET m == CHOOSE x \in S : \A y \in S : x <= y
         IN  <<m>> \o SeqOfSet(S \ {m})

Logged(W, entry) == [W EXCEPT !.log = Append(@, entry)]

\* ActivityDB.record_pid_seen
RecordPidSeen(W, patternId, pid) ==
    IF patternId \notin 1..Len(W.pat) THEN W
    ELSE IF <<patternId, pid>> \notin W.seen
    THEN [W EXCEPT !.seen = @ \cup {<<patternId, pid>>},
                   !.pat[patternId].unique_pid_count = @ + 1,
                   !.pat[patternId].last_seen = W.clk]
    ELSE [W EXCEPT !.pat[patternId].last_seen = W.clk]

\* ActivityDB.add_runtime
AddRuntime(W, patternId, seconds) ==
    [W EXCEPT !.pat[patternId].total_runtime_seconds =
                    Min(@ + seconds, MaxCount * PollInterval),
              !.pat[patternId].last_seen = W.clk]

\* MessageRouter.send: the notification and its message_log row
Send(W, intention, user, pid) ==
    LET k == <<Date(W.clk), user, intention>>
    IN  [W EXCEPT !.msg = IF k \in DOMAIN @ THEN [@ EXCEPT ![k] = Sat(@ + 1)]
                          ELSE @ @@ (k :> 1),
                  !.log = Append(@, <<"intent", intention, pid>>)]

RECURSIVE DescClosure(_, _)
DescClosure(al, S) ==
    LET n == S \cup {p \in al : ProcPpid(p) \in S}
    IN  IF n = S THEN S ELSE DescClosure(al, n)

\* psutil.Process(pid).children(recursive=True)
Children(al, root) == DescClosure(al, {root}) \ {root}

\* History: the signals sent to the children of a terminated process
RECURSIVE LogSignals(_, _, _)
LogSignals(W, sig, pidSeq) ==
    IF pidSeq = <<>> THEN W
    ELSE LogSignals(Logged(W, <<"child", sig, Head(pidSeq)>>), sig, Tail(pidSeq))

\* W with the entry logged when cond holds
LoggedIf(W, cond, entry) == IF cond THEN Logged(W, entry) ELSE W

\* _kill_process from "children = parent.children(recursive=True)" on: SIGTERM
\* to the children that are not excluded and to the process, the wait, SIGKILL
\* to what is left, the "terminated" event. A SIGKILL that reaches the daemon
\* itself ends it there (W.dead) before the event is written.
KillTree(W, pid, user, reason, slow, kids) ==
    LET termKids == {c \in kids : ~IsExcludedProcess(ProcName(c), ProcCmdline(c), c)}
        killKids == IF slow THEN kids ELSE kids \ termKids
    IN  [LogSignals(LoggedIf(LogSignals(Logged(W, <<"signal", "SIGTERM", pid>>),
                                        "SIGTERM", SeqOfSet(termKids)),
                             slow, <<"signal", "SIGKILL", pid>>),
                    "SIGKILL", SeqOfSet(killKids))
            EXCEPT !.alive = @ \ ({pid} \cup kids),
                   !.clk = After(@, IF slow THEN KillWaitSeconds ELSE 0),
                   !.sig = @ \cup {pid} \cup termKids \cup killKids,
                   !.dead = @ \/ OurPid \in killKids,
                   !.exc = @ \/ OurPid \in killKids,
                   !.ev = IF OurPid \in killKids THEN @
                          ELSE LogEvent(@, user, "terminated", pid, reason)]

\* The first element of pidSeq in D, and the elements before it
FirstIn(pidSeq, D) ==
    pidSeq[CHOOSE i \in 1..Len(pidSeq) :
              pidSeq[i] \in D /\ \A j \in 1..(i - 1) : pidSeq[j] \notin D]

BeforeIn(pidSeq, x) ==
    {pidSeq[j] : j \in {k \in 1..Len(pidSeq) : \A i \in 1..k : pidSeq[i] # x}}

\* "except psutil.AccessDenied: log.error(...)" for a SIGTERM refused: the
\* signals sent before the refused one stay sent, the rest of _kill_process
\* (the wait, the SIGKILLs, the "terminated" event) is left out
TermRefused(W, pid, slow, termSeq) ==
    IF pid \in W.denied THEN Logged(W, <<"denied", "SIGTERM", pid>>)
    ELSE [Logged(LogSignals(Logged(W, <<"signal", "SIGTERM", pid>>), "SIGTERM",
                            SeqOfSet(BeforeIn(termSeq, FirstIn(termSeq, W.denied)))),
                 <<"denied", "SIGTERM", FirstIn(termSeq, W.denied)>>)
             EXCEPT !.alive = IF slow THEN @ ELSE
                                 @ \ ({pid} \cup BeforeIn(termSeq, FirstIn(termSeq, W.denied))),
                    !.sig = @ \cup {pid}
                              \cup BeforeIn(termSeq, FirstIn(termSeq, W.denied))]

\* The same for a SIGKILL to a child refused: the SIGTERMs, the wait and
\* the SIGKILLs before the refused one are done, the event is left out
KillRefused(W, pid, slow, termKids, killSeq) ==
    [Logged(LogSignals(LoggedIf(LogSignals(Logged(W, <<"signal", "SIGTERM", pid>>),
                                           "SIGTERM", SeqOfSet(termKids)),
                                slow, <<"signal", "SIGKILL", pid>>),
                       "SIGKILL",
                       SeqOfSet(BeforeIn(killSeq, FirstIn(killSeq, W.denied)))),
            <<"denied", "SIGKILL", FirstIn(killSeq, W.denied)>>)
        EXCEPT !.alive = @ \ ({pid} \cup termKids
                                \cup BeforeIn(killSeq, FirstIn(killSeq, W.denied))),
               !.clk = After(@, IF slow THEN KillWaitSeconds ELSE 0),
               !.sig = @ \cup {pid} \cup termKids
                         \cup BeforeIn(killSeq, FirstIn(killSeq, W.denied)),
               !.dead = @ \/ OurPid \in BeforeIn(killSeq, FirstIn(killSeq, W.denied)),
               !.exc = @ \/ OurPid \in BeforeIn(killSeq, FirstIn(killSeq, W.denied))]

\* _kill_process when psutil refuses one of its signals (W.denied: the
\* processes the daemon may not signal)
KillDenied(W, pid, slow, termKids, killKids) ==
    IF ({pid} \cup termKids) \cap W.denied # {}
    THEN TermRefused(W, pid, slow, SeqOfSet(termKids))
    ELSE KillRefused(W, pid, slow, termKids, SeqOfSet(killKids))

\* _kill_process after the passthrough test, for a running process
KillRunning(W, pid, user, reason, slow, kids) ==
    IF ({pid} \cup kids) \cap W.denied = {}
    THEN KillTree(W, pid, user, reason, slow, kids)
    ELSE KillDenied(W, pid, slow,
                    {c \in kids : ~IsExcludedProcess(ProcName(c), ProcCmdline(c), c)},
                    IF slow THEN kids
                    ELSE {c \in kids : IsExcludedProcess(ProcName(c), ProcCmdline(c), c)})

\* _kill_process without the passthrough test
KillProcessAnyMode(W, pid, user, reason, slow) ==
    IF pid \notin W.alive THEN W
    ELSE KillRunning(W, pid, user, reason, slow, Children(W.alive, pid))

\* ClaudeDaemon._kill_process(proc, user, notify=False, reason)
KillProcess(W, pid, user, reason, slow) ==
    IF W.mode = "passthrough" THEN W
    ELSE IF pid \notin W.alive THEN W
    ELSE KillRunning(W, pid, user, reason, slow, Children(W.alive, pid))

-----------------------------------------------------------------------------
(* The process scan: _scan_all_processes and what it calls *)

\* discovery_config: cpu_threshold, sample_window_seconds, min_samples
DiscoveryCpuThreshold == 25

SampleWindowSeconds == 120

MinSamples == 3

DiscoveredCpuThreshold == 5

\* the pattern text the catch-all rule compares with: r'\.exe$'
CatchAllRx == Rx(s_exe, FALSE, TRUE)

\* "New discovery!" without the message to the user
DiscoveredSilently(W, user, procName, pid) ==
    LET W2 == [W EXCEPT !.pat = DiscoverPattern(@, Escape(procName), procName, user,
                                    DiscoveredCpuThreshold, NoCategory,
                                    "discovered", W.clk)]
    IN  RecordPidSeen(W2, Len(W2.pat), pid)

\* "New discovery!": discover_pattern, record_pid_seen, router.discovery
Discovered(W, user, procName, pid) ==
    LET W2 == [W EXCEPT !.pat = DiscoverPattern(@, Escape(procName), procName, user,
                                    DiscoveredCpuThreshold, NoCategory,
                                    "discovered", W.clk)]
    IN  Send(RecordPidSeen(W2, Len(W2.pat), pid), "discovery", user, pid)

\* ClaudeDaemon._check_discovery (discovery enabled)
CheckDiscovery(W, user, procName, cmdline, pid, cpu) ==
    IF cpu < DiscoveryCpuThreshold THEN W
    ELSE
      LET key == <<user, procName>>
          old == IF key \in DOMAIN W.cand THEN W.cand[key]
                 ELSE [samples |-> <<>>, first_seen |-> W.clk, pid |-> pid]
          all == Append(old.samples, W.clk)
          kept == SelectSeq(all, LAMBDA t : W.clk - t <= SampleWindowSeconds)
          cnd == [old EXCEPT !.samples = kept]
          W1 == [W EXCEPT !.cand = [k \in DOMAIN @ \cup {key} |->
                                        IF k = key THEN cnd ELSE @[k]]]
      IN  IF Len(kept) < MinSamples THEN W1
          ELSE
            LET existing == GetPatternByNameAndOwner(W1.pat, procName, user)
            IN  IF existing # 0
                THEN [RecordPidSeen(W1, existing, pid) EXCEPT !.cand = Remove(@, key)]
                ELSE [Discovered(W1, user, procName, pid)
                          EXCEPT !.cand = Remove(@, key)]

\* ClaudeDaemon._discover_from_catchall
DiscoverFromCatchall(W, user, procName, cmdline, pid, catchall) ==
    IF GetPatternByNameAndOwner(W.pat, procName, user) # 0 THEN W
    ELSE
      LET displayName == IF EndsWith(LowerStr(procName), s_exe)
                         THEN SubSeq(procName, 1, Len(procName) - 4)
                         ELSE procName
          W1 == [W EXCEPT !.pat = DiscoverPattern(@, Escape(procName), displayName,
                                      user, W.pat[catchall].cpu_threshold,
                                      W.pat[catchall].category, "active", W.clk)]
      IN  RecordPidSeen(W1, Len(W1.pat), pid)

\* ActivityDB.get_all_monitored_users
GetAllMonitoredUsers(lim) ==
    SelectSeq(UserRows, LAMBDA u : lim[u].present /\ lim[u].enabled = 1)

\* ClaudeDaemon._reload_config
ReloadConfig(W) ==
    LET W1 == [W EXCEPT !.mode = dbMode, !.users = GetAllMonitoredUsers(userLimits)]
    IN  IF W.mode # dbMode THEN Send(W1, "mode_change", "all", 0) ELSE W1

\* A point of the scan between a test of self.mode and the call of
\* _kill_process: when SIGHUP arrives there, _handle_reload runs
ReloadPoint(W) == IF W.hup THEN [ReloadConfig(W) EXCEPT !.hup = FALSE] ELSE W

\* _handle_strict_unknown after the kill of an expired warning: K is what
\* _kill_process left
StrictEnforced(K, user, pid) ==
    IF K.exc THEN K
    ELSE [Send(K, "enforcement", user, pid) EXCEPT !.pend = Remove(@, pid)]

\* ClaudeDaemon._handle_strict_unknown
HandleStrictUnknown(W, user, procName, cmdline, pid, cpu, slow) ==
    IF pid \notin DOMAIN W.pend
    THEN CheckDiscovery(Send([W EXCEPT !.pend = @ @@ (pid :> [name |-> procName,
                                                             warned_at |-> W.clk,
                                                             user |-> user])],
                             "strict_warning", user, pid),
                        user, procName, cmdline, pid, cpu)
    ELSE IF W.clk - W.pend[pid].warned_at >= StrictGraceSeconds
         THEN StrictEnforced(KillProcess(ReloadPoint(W), pid, user, "KILLED", slow),
                             user, pid)
         ELSE W

\* "if cpu >= threshold: self.db.add_runtime(pattern.id, poll_interval)"
ScanRuntime(W, m, cpu, row) ==
    IF cpu >= row.cpu_threshold THEN AddRuntime(W, m, PollInterval) ELSE W

\* "Per-user promotion from global catch-all patterns"
ScanCatchall(W, user, pid, m, row) ==
    IF /\ row.owner = NoOwner
       /\ row.pattern = CatchAllRx
       /\ EndsWith(LowerStr(ProcName(pid)), s_exe)
    THEN DiscoverFromCatchall(W, user, ProcName(pid), ProcCmdline(pid), pid, m)
    ELSE W

\* "Enforce disallowed patterns" after the kill: K is what _kill_process left
ScanBlocked(K, user, pid) ==
    IF K.exc THEN K ELSE Send(K, "blocked_launch", user, pid)

\* "Enforce disallowed patterns" with the message but without the kill
ScanDisallowedMessageOnly(W, user, pid, row, slow) ==
    IF row.monitor_state = "disallowed" /\ W.mode # "passthrough"
    THEN ScanBlocked(W, user, pid)
    ELSE W

\* "Enforce disallowed patterns"
ScanDisallowed(W, user, pid, row, slow) ==
    IF row.monitor_state = "disallowed" /\ W.mode # "passthrough"
    THEN ScanBlocked(KillProcess(ReloadPoint(W), pid, user, "KILLED", slow),
                     user, pid)
    ELSE W

\* "If process was pending strict termination but is now known+allowed"
ScanClearPending(W, pid, row) ==
    IF W.exc THEN W
    ELSE IF pid \in DOMAIN W.pend /\ row.monitor_state \in {"active", "ignored"}
    THEN [W EXCEPT !.pend = Remove(@, pid)]
    ELSE W

\* The body of the scan loop for one process that matched pattern m,
\* row being the pattern's row as the scan read it.
ScanMatched(W, user, pid, m, cpu, slow) ==
    ScanClearPending(
        ScanDisallowed(
            ScanCatchall(ScanRuntime(RecordPidSeen(Logged(W, <<"matched",
                                                              W.pat[m].monitor_state,
                                                              pid, m>>),
                                                   m, pid),
                                     m, cpu, W.pat[m]),
                         user, pid, m, W.pat[m]),
            user, pid, W.pat[m], slow),
        pid, W.pat[m])

\* "No pattern match" for a process the scan saw with the given cpu
ScanUnknown(W, user, pid, c, slow) ==
    IF W.mode = "strict" /\ c >= DiscoveryCpuThreshold
    THEN HandleStrictUnknown(W, user, ProcName(pid), ProcCmdline(pid), pid, c, slow)
    ELSE CheckDiscovery(W, user, ProcName(pid), ProcCmdline(pid), pid, c)

\* The else branch of the scan loop; the tick's log notes the process, the
\* mode and the cpu
ScanUnmatched(W, user, pid, c, slow) ==
    ScanUnknown(Logged(W, <<"unknown", W.mode, pid, c>>), user, pid, c, slow)

\* The scan loop of _scan_all_processes over the pids of the snapshot.
RECURSIVE ScanLoop(_, _, _, _, _, _)
ScanLoop(W, user, pidSeq, allPatterns, cpu, slow) ==
    IF pidSeq = <<>> \/ W.exc THEN W
    ELSE
      LET pid == Head(pidSeq)
          rest == Tail(pidSeq)
      IN  IF \/ ProcUser(pid) # user
             \/ pid \notin W.alive
             \/ IsExcludedProcess(ProcName(pid), ProcCmdline(pid), pid)
          THEN ScanLoop(W, user, rest, allPatterns, cpu, slow)
          ELSE
            LET W1 == [W EXCEPT !.scanSeen = @ \cup {pid}]
                m == MatchProcessToPattern(W1.pat, ProcName(pid), ProcCmdline(pid),
                                           allPatterns, 1)
                W2 == IF m # 0 THEN ScanMatched(W1, user, pid, m, cpu[pid], slow)
                      ELSE ScanUnmatched(W1, user, pid, cpu[pid], slow)
            IN  ScanLoop(W2, user, rest, allPatterns, cpu, slow)

\* base.EXCLUDED_DOMAIN_SUFFIXES and base.EXCLUDED_DOMAINS (the members the
\* universe can name)
EXCLUDED_DOMAIN_SUFFIXES == {s_gvt1_com}

EXCLUDED_DOMAINS == {s_recaptcha_net}

\* base.is_excluded_domain
IsExcludedDomain(domain) ==
    \/ domain = <<>>
    \/ domain \in EXCLUDED_DOMAINS
    \/ \E suffix \in EXCLUDED_DOMAIN_SUFFIXES :
          domain = suffix \/ EndsWith(domain, s_dot \o suffix)

\* A URL of a session file, and urlparse(url).netloc
Url(netloc, path) == [netloc |-> netloc, path |-> path]

Netloc(url) == url.netloc

\* What a user's browsers show: the URLs of the Chrome and of the Firefox
\* session file and the browser windows, each with the domain its worker
\* resolves the title to
Sources(chrome, firefox, windows) ==
    [chrome |-> chrome, firefox |-> firefox, windows |-> windows]

\* No browser is running
NoBrowser == [u \in AllUsers |-> Sources(<<>>, <<>>, <<>>)]

\* "if domain not in domains: domains[domain] = browser" over pairs of a
\* domain and a browser id, in order
RECURSIVE Merged(_, _)
Merged(domains, pairs) ==
    IF pairs = <<>> THEN domains
    ELSE Merged(IF \E i \in 1..Len(domains) : domains[i][1] = Head(pairs)[1]
                THEN domains ELSE Append(domains, Head(pairs)),
                Tail(pairs))

\* <<netloc, browser>> for each URL of the sequence
Located(urls, browser) == [i \in 1..Len(urls) |-> <<Netloc(urls[i]), browser>>]

\* ChromeWorker.get_active_domains_from_session
ChromeSessionDomains(urls) ==
    Merged(<<>>, SelectSeq(Located(urls, "chrome"),
                           LAMBDA p : p[1] # <<>> /\ ~HasAt(p[1], s_chrome, 1)))

\* FirefoxWorker.get_active_domains_from_session
FirefoxSessionDomains(urls) ==
    Merged(<<>>, SelectSeq(Located(urls, "firefox"), LAMBDA p : p[1] # <<>>))

\* get_browser_domains_for_user: the tabs of the Chrome worker, then those of
\* the Firefox worker, a domain once
WindowDomains(windows) ==
    Merged(<<>>,
           SelectSeq(windows, LAMBDA w : w[1] # <<>> /\ w[2] # "firefox")
             \o SelectSeq(windows, LAMBDA w : w[1] # <<>> /\ w[2] = "firefox"))

\* browser.get_active_domains: the dict as its items in insertion order
GetActiveDomains(src) ==
    Merged(Merged(ChromeSessionDomains(src.chrome), FirefoxSessionDomains(src.firefox)),
           WindowDomains(src.windows))

\* A process_patterns row as add_browser_pattern and discover_browser_domain
\* insert it: the domain is the pattern column
BrowserRow(domain, category, state, owner, t) ==
    [pattern |-> Rx(domain, FALSE, FALSE), name |-> domain, category |-> category,
     monitor_state |-> state, owner |-> owner, enabled |-> TRUE,
     cpu_threshold |-> 0, unique_pid_count |-> 0,
     total_runtime_seconds |-> 0, last_seen |-> t, pattern_type |-> "browser_domain"]

\* "WHERE pattern = ? AND pattern_type = 'browser_domain' AND (owner = ? OR
\* owner IS NULL)"
DomainRows(pat, domain, owner) ==
    {i \in 1..Len(pat) : /\ pat[i].pattern = Rx(domain, FALSE, FALSE)
                         /\ pat[i].pattern_type = "browser_domain"
                         /\ pat[i].owner \in {owner, NoOwner}}

\* ActivityDB.get_pattern_by_domain_and_owner: the id of the first row in
\* rowid order, or 0
GetPatternByDomainAndOwner(pat, domain, owner) ==
    IF DomainRows(pat, domain, owner) = {} THEN 0
    ELSE CHOOSE i \in DomainRows(pat, domain, owner) :
             \A j \in DomainRows(pat, domain, owner) : i <= j

\* BrowserMonitor.scan, "Threshold met": discover_browser_domain, the
\* candidate removed, the result with is_new
BrowserDiscovered(W, user, domain, browser) ==
    [W EXCEPT !.pat = Append(@, BrowserRow(domain, NoCategory, "discovered", user, W.clk)),
              !.bcand[user] = [d \in DOMAIN @ \ {domain} |-> @[d]],
              !.found = Append(@, <<domain, Len(W.pat) + 1, TRUE>>)]

\* BrowserMonitor.scan, "Unknown domain - check discovery threshold": W holds
\* the candidate with this scan's sample counted
BrowserSampled(W, user, domain, browser) ==
    IF /\ W.clk - W.bcand[user][domain].first_seen <= SampleWindowSeconds
       /\ W.bcand[user][domain].sample_count >= MinSamples
    THEN BrowserDiscovered(W, user, domain, browser)
    ELSE W

\* The candidate of the domain with one more sample (counted up to MinSamples)
Sampled(cands, domain, browser, t) ==
    IF domain \in DOMAIN cands
    THEN [cands EXCEPT ![domain].sample_count = Min(@ + 1, MinSamples),
                       ![domain].last_seen = t]
    ELSE cands @@ (domain :> [first_seen |-> t, sample_count |-> 1,
                              last_seen |-> t, browser |-> browser])

\* BrowserMonitor.scan: the body of "for domain, browser in active.items()"
BrowserDomain(W, user, domain, browser) ==
    IF HasAt(domain, s_unknown, 1) THEN W
    ELSE IF GetPatternByDomainAndOwner(W.pat, domain, user) # 0
    THEN [W EXCEPT !.found = Append(@, <<domain,
                                         GetPatternByDomainAndOwner(W.pat, domain, user),
                                         FALSE>>)]
    ELSE BrowserSampled([W EXCEPT !.bcand[user] = Sampled(@, domain, browser, W.clk)],
                        user, domain, browser)

RECURSIVE BrowserDomains(_, _, _)
BrowserDomains(W, user, active) ==
    IF active = <<>> THEN W
    ELSE BrowserDomains(BrowserDomain(W, user, Head(active)[1], Head(active)[2]),
                        user, Tail(active))

\* BrowserMonitor.scan, "Clean up stale candidates"
BrowserStale(W, user) ==
    [W EXCEPT !.bcand[user] =
        [d \in {x \in DOMAIN @ : W.clk - @[x].last_seen <= SampleWindowSeconds} |-> @[d]]]

\* History: what the browsers of the user showed and what get_active_domains
\* made of it, when a browser is running
Resolved(W, user) ==
    LoggedIf(W, W.web[user] # Sources(<<>>, <<>>, <<>>),
             <<"browser", W.web[user], GetActiveDomains(W.web[user])>>)

\* BrowserMonitor.scan
BrowserMonitorScan(W, user) ==
    BrowserStale(BrowserDomains(Resolved([W EXCEPT !.found = <<>>], user), user,
                                GetActiveDomains(W.web[user])),
                 user)

\* "Track runtime for all browser domains", "Notify about newly discovered
\* domains": the loop over the results of the scan
RECURSIVE BrowserResults(_, _, _)
BrowserResults(W, user, found) ==
    IF found = <<>> THEN W
    ELSE BrowserResults(IF Head(found)[3]
                        THEN Send(AddRuntime(W, Head(found)[2], PollInterval),
                                  "discovery", user, 0)
                        ELSE AddRuntime(W, Head(found)[2], PollInterval),
                        user, Tail(found))

\* "Browser domain scanning" at the end of _scan_all_processes
BrowserScanned(W, user) ==
    IF W.exc THEN W ELSE BrowserResults(W, user, W.found)

ScanBrowser(W, user) ==
    IF W.exc THEN W ELSE BrowserScanned(BrowserMonitorScan(W, user), user)

\* The end of _scan_all_processes: the pending strict warnings of processes
\* that are gone are dropped
ScanCleanup(W) ==
    IF W.exc THEN W
    ELSE [W EXCEPT !.pend = [p \in DOMAIN @ \cap W.scanSeen |-> @[p]]]

\* ClaudeDaemon._scan_all_processes
ScanAllProcesses(W, user, cpu, slow) ==
    ScanBrowser(ScanCleanup(ScanLoop([W EXCEPT !.scanSeen = {}], user,
                                     SeqOfSet(W.alive),
                                     GetPatterns(W.pat, NoCategory, TRUE, user),
                                     cpu, slow)),
                user)

-----------------------------------------------------------------------------
(* The per-user tick: _find_gaming_processes and _process_user *)

\* "if match.low_cpu_count >= 3": the scans a tracked game may idle
CooldownScans == 3

\* The cooldown with one scan less
CooldownExpiredEarly(tracked, above, low) ==
    tracked /\ ~above /\ low >= CooldownScans - 1

\* "Cooldown expired - drop this PID"
CooldownExpired(tracked, above, low) ==
    tracked /\ ~above /\ low >= CooldownScans

\* The loop of _find_gaming_processes; the matches are collected in W.cur.
\* The tick's log notes for every process that matched a gaming pattern
\* whether its cpu reached the threshold and the counter it came with (-1
\* when untracked), and for every match the counter it leaves with.
RECURSIVE FindLoop(_, _, _, _, _, _, _)
FindLoop(W, user, pidSeq, launchers, gaming, prev, cpu) ==
    IF pidSeq = <<>> THEN W
    ELSE
      LET pid == Head(pidSeq)
          rest == Tail(pidSeq)
          g == MatchProcessToPattern(W.pat, ProcName(pid), ProcCmdline(pid), gaming, 1)
          tracked == pid \in DOMAIN prev
          above == cpu[pid] >= W.pat[g].cpu_threshold
          low == IF tracked /\ ~above THEN prev[pid].low_cpu_count + 1 ELSE 0
          match == [pid |-> pid, name |-> W.pat[g].name,
                    session_id |-> IF tracked THEN prev[pid].session_id ELSE 0,
                    low_cpu_count |-> low]
          probe == <<"probe", IF above THEN "above" ELSE "below", pid, g,
                     IF tracked THEN prev[pid].low_cpu_count ELSE -1>>
      IN  IF \/ ProcUser(pid) # user
             \/ pid \notin W.alive
             \/ MatchProcessToPattern(W.pat, ProcName(pid), ProcCmdline(pid),
                                      launchers, 1) # 0
             \/ g = 0
          THEN FindLoop(W, user, rest, launchers, gaming, prev, cpu)
          ELSE IF ~(above \/ tracked) \/ CooldownExpired(tracked, above, low)
          THEN FindLoop([W EXCEPT !.log = Append(@, probe)],
                        user, rest, launchers, gaming, prev, cpu)
          ELSE FindLoop(RecordPidSeen([W EXCEPT !.cur = Append(@, match),
                                                 !.log = @ \o <<probe,
                                                               <<"game",
                                                                 W.pat[g].category,
                                                                 pid, g, low>>>>],
                                      g, pid),
                        user, rest, launchers, gaming, prev, cpu)

\* ClaudeDaemon._find_gaming_processes
FindGamingProcesses(W, user, cpu) ==
    FindLoop([W EXCEPT !.cur = <<>>], user, SeqOfSet(W.alive),
             GetPatterns(W.pat, "launcher", FALSE, user),
             GetPatterns(W.pat, "gaming", FALSE, user),
             W.games[user], cpu)

\* MessageRouter.outside_hours(self, user, allowed_window): its parameters
OutsideHoursParams == 2

\* The call of router.outside_hours in _process_user: a call with the wrong
\* number of arguments raises TypeError before the method body runs.
RouterOutsideHours(W, args) ==
    IF Len(args) # OutsideHoursParams
    THEN [Logged(W, <<"raise", "TypeError", 0>>) EXCEPT !.exc = TRUE]
    ELSE Send(W, "outside_hours", args[1], 0)

\* MessageRouter.time_warning: the intention for minutes_left
TimeWarningIntention(minutesLeft) ==
    IF minutesLeft <= 5 THEN "time_warning_5"
    ELSE IF minutesLeft <= 15 THEN "time_warning_15"
    ELSE IF minutesLeft <= 30 THEN "time_warning_30"
    ELSE "none"

\* MessageRouter.time_warning
TimeWarning(W, user, minutesLeft) ==
    IF TimeWarningIntention(minutesLeft) = "none" THEN W
    ELSE Send(W, TimeWarningIntention(minutesLeft), user, 0)

\* "Outside allowed hours" after the router call: an exception of the call
\* leaves the tick before the event and the kill
BlockedSchedule(W, user, pid, slow) ==
    IF W.exc THEN W
    ELSE [KillProcess([W EXCEPT !.ev = LogEvent(@, user, "blocked_schedule",
                                                pid, "outside")],
                      pid, user, "KILLED", slow)
             EXCEPT !.kills = @ + 1]

\* "No time remaining"
BlockedQuota(W, user, pid, slow) ==
    [KillProcess([Send(W, "blocked_launch", user, pid)
                     EXCEPT !.ev = LogEvent(@, user, "blocked_quota", pid, "")],
                 pid, user, "KILLED", slow)
        EXCEPT !.kills = @ + 1]

\* "Allowed - start session", W holding the new sessions row
SessionStarted(W, user, i) ==
    Send([W EXCEPT !.cur[i].session_id = Len(W.sess),
                   !.sum = IncrementSessionCount(@, W.clk, user),
                   !.ev = LogEvent(@, user, "game_start", W.cur[i].pid, "")],
         "process_start", user, W.cur[i].pid)

\* The body of "Process new game starts" for the game at index i, W holding
\* its game_detected event
NewGame(W, user, i, allowed, remaining, slow) ==
    IF ~allowed
    THEN BlockedSchedule(RouterOutsideHours(W, <<user, "weekday_start", "weekday_end">>),
                         user, W.cur[i].pid, slow)
    ELSE IF remaining <= 0
    THEN BlockedQuota(W, user, W.cur[i].pid, slow)
    ELSE SessionStarted([W EXCEPT !.sess = StartSession(@, user, W.cur[i].name,
                                                        W.cur[i].pid)],
                        user, i)

\* "Process new game starts": the loop over current_games, from index i.
\* An exception (W.exc) leaves the loop and the tick.
RECURSIVE NewGamesLoop(_, _, _, _, _, _, _)
NewGamesLoop(W, user, i, prevPids, allowed, remaining, slow) ==
    IF W.exc \/ i > Len(W.cur) THEN W
    ELSE IF W.cur[i].pid \in prevPids
    THEN NewGamesLoop(W, user, i + 1, prevPids, allowed, remaining, slow)
    ELSE NewGamesLoop(NewGame([W EXCEPT !.ev = LogEvent(@, user, "game_detected",
                                                        W.cur[i].pid, "")],
                              user, i, allowed, remaining, slow),
                      user, i + 1, prevPids, allowed, remaining, slow)

\* "Detect ended games and close their sessions"
RECURSIVE EndedLoop(_, _, _, _)
EndedLoop(W, user, prev, endedSeq) ==
    IF endedSeq = <<>> THEN W
    ELSE
      LET pid == Head(endedSeq)
          W1 == IF prev[pid].session_id # 0
                THEN [W EXCEPT !.sess = EndSession(@, prev[pid].session_id, "natural"),
                               !.log = Append(@, <<"end_session", "natural", pid>>)]
                ELSE W
          W2 == [W1 EXCEPT !.ev = LogEvent(@, user, "game_end", pid, "")]
      IN  EndedLoop(W2, user, prev, Tail(endedSeq))

\* "Enforce time limit", the session of the game at index i closed
SessionEnforced(W, i) ==
    IF W.cur[i].session_id # 0
    THEN [W EXCEPT !.sess = EndSession(@, W.cur[i].session_id, "enforced"),
                   !.log = Append(@, <<"end_session", "enforced", W.cur[i].pid>>)]
    ELSE W

\* "Enforce time limit" after the kill: K is what _kill_process left
EnforcementSent(K, user, pid) ==
    IF K.exc THEN K
    ELSE [Send(K, "enforcement", user, pid) EXCEPT !.kills = @ + 1]

\* "Enforce time limit": the loop over current_games after the grace sleep
RECURSIVE EnforceLoop(_, _, _, _)
EnforceLoop(W, user, i, slow) ==
    IF W.exc \/ i > Len(W.cur) THEN W
    ELSE EnforceLoop(EnforcementSent(KillProcess(SessionEnforced(W, i),
                                                 W.cur[i].pid, user, "KILLED", slow),
                                     user, W.cur[i].pid),
                     user, i + 1, slow)

\* active_games[user] = {g.pid: g for g in current_games}
GamesOf(cur) ==
    [p \in {cur[i].pid : i \in 1..Len(cur)} |->
        LET i == CHOOSE j \in 1..Len(cur) : cur[j].pid = p
        IN  [name |-> cur[i].name, session_id |-> cur[i].session_id,
             low_cpu_count |-> cur[i].low_cpu_count]]

\* The warning step without "and not warned_N"
WarnStepIgnoringFlag(Wf, user, gamingActive, remaining, threshold, flag) ==
    IF gamingActive = 1 /\ remaining > 0 /\ remaining \div 60 <= threshold
    THEN [w |-> TimeWarning(Wf.w, user, threshold), f |-> Append(Wf.f, 1)]
    ELSE [w |-> Wf.w, f |-> Append(Wf.f, flag)]

\* "Send warnings if gaming (flags prevent duplicates)": one threshold
WarnStep(Wf, user, gamingActive, remaining, threshold, flag) ==
    IF gamingActive = 1 /\ remaining > 0 /\ remaining \div 60 <= threshold /\ flag = 0
    THEN [w |-> TimeWarning(Wf.w, user, threshold), f |-> Append(Wf.f, 1)]
    ELSE [w |-> Wf.w, f |-> Append(Wf.f, flag)]

\* "Time's up - enforce": the two messages, the grace sleep, the enforce loop
ExpireStep(Wf, user, gamingActive, remaining, slow) ==
    IF gamingActive = 1 /\ remaining <= 0
    THEN [w |-> EnforceLoop([Logged(Send(Send(Wf.w, "time_expired", user, 0),
                                         "grace_period", user, 0),
                                    <<"sleep", "grace", 0>>)
                                EXCEPT !.clk = After(@, StrictGraceSeconds)],
                            user, 1, slow),
          f |-> Wf.f]
    ELSE Wf

\* "Update daily summary" and "Update hourly activity"
RecordTime(W, user, counted) ==
    [W EXCEPT !.sum = UpdateDailySummary(@, W.clk, user, counted, counted, W.kills),
              !.hrs = UpdateHourlyActivity(@, W.clk, user, counted)]

\* The end of _process_user: the time of the tick and the user state are
\* written unless the enforce loop raised
SaveTick(Wf, user, now, counted, gamingActive, gamingUsed) ==
    IF Wf.w.exc THEN Wf.w
    ELSE [RecordTime(Wf.w, user, counted)
             EXCEPT !.sum = UpdateUserState(@, Wf.w.clk, user, gamingActive,
                                            gamingUsed, now, Wf.f[1], Wf.f[2],
                                            Wf.f[3])]

\* The part of _process_user from "Detect ended games" to its end, reached
\* when the loop over new games raised nothing.
ProcessUserTail(W, user, now, prev, dbState, elapsed, gamingUsed, remaining, slow) ==
    IF W.exc THEN W ELSE
    LET was == IF dbState.present THEN dbState.gaming_active ELSE 0
        gamingActive == IF Len(W.cur) > 0 THEN 1 ELSE 0
        ended == DOMAIN prev \ {W.cur[i].pid : i \in 1..Len(W.cur)}
        trackedW == [EndedLoop(W, user, prev, SeqOfSet(ended))
                        EXCEPT !.games[user] = GamesOf(W.cur)]
        f30 == WarnStep([w |-> trackedW, f |-> <<>>], user, gamingActive, remaining,
                        30, IF dbState.present THEN dbState.warned_30 ELSE 0)
        f15 == WarnStep(f30, user, gamingActive, remaining, 15,
                        IF dbState.present THEN dbState.warned_15 ELSE 0)
        f5 == WarnStep(f15, user, gamingActive, remaining, 5,
                       IF dbState.present THEN dbState.warned_5 ELSE 0)
    IN  SaveTick(ExpireStep(f5, user, gamingActive, remaining, slow), user, now,
                 IF was # 0 THEN elapsed ELSE 0, gamingActive, gamingUsed)

\* History: the games the tick found, each as tracked before or new
RECURSIVE LogCurrent(_, _, _)
LogCurrent(W, prevPids, i) ==
    IF i > Len(W.cur) THEN W
    ELSE LogCurrent(Logged(W, <<"current",
                               IF W.cur[i].pid \in prevPids THEN "tracked" ELSE "new",
                               W.cur[i].pid>>),
                    prevPids, i + 1)

\* _process_user from "Process new game starts" on: W holds the games found,
\* dbState is the user's state row as the tick read it
ProcessUserFound(W, user, now, prev, dbState, slow) ==
    LET was == IF dbState.present THEN dbState.gaming_active ELSE 0
        last == IF dbState.present THEN dbState.last_poll_at ELSE NoTime
        raw == IF last # NoTime /\ was # 0 THEN now - last ELSE 0
        elapsed == IF raw > PollInterval * 2 THEN PollInterval * 2 ELSE raw
        used == GetTimeUsedToday(W.sum, W.clk, user)
        gamingUsed == IF elapsed > 0 /\ was # 0 THEN used[2] + elapsed ELSE used[2]
        limit == GetDailyLimits(userLimits, user)[Weekday(W.clk) + 1] * 60
        remaining == Max(0, limit - gamingUsed)
        allowed == GetSchedule(userLimits, user)
                      [Weekday(W.clk) * 24 + HourOf(W.clk) + 1] = "1"
        found == <<"found", IF remaining <= 0 THEN "exhausted" ELSE "left",
                   Len(W.cur)>>
    IN  ProcessUserTail(NewGamesLoop(LogCurrent(Logged(W, found), DOMAIN prev, 1),
                                     user, 1, DOMAIN prev, allowed, remaining, slow),
                        user, now, prev, dbState, elapsed, gamingUsed, remaining,
                        slow)

\* _process_user after the scan: an exception of the scan leaves the tick
ProcessUserScanned(W, user, now, prev, cpu, slow) ==
    IF W.exc THEN W
    ELSE ProcessUserFound(FindGamingProcesses(W, user, cpu), user, now, prev,
                          GetUserState(W.sum, W.clk, user), slow)

\* _process_user without the test of the user's row
ProcessUserListed(W, user, cpu, slow) ==
    ProcessUserScanned(ScanAllProcesses([W EXCEPT !.kills = 0], user, cpu, slow),
                       user, W.clk, W.games[user], cpu, slow)

\* ClaudeDaemon._process_user
ProcessUser(W, user, cpu, slow) ==
    IF ~GetUserLimits(userLimits, user).present
       \/ GetUserLimits(userLimits, user).enabled = 0
    THEN W
    ELSE ProcessUserScanned(ScanAllProcesses([W EXCEPT !.kills = 0], user, cpu, slow),
                            user, W.clk, W.games[user], cpu, slow)

-----------------------------------------------------------------------------
(* The daemon: run, _reload_config, the signal handlers *)

\* An exception of _process_user that nothing catches ends run
Uncaught(W, user) == [W EXCEPT !.dead = @ \/ W.exc]

\* "except Exception as e: log.error(...)": the exception ends there
Caught(W, user) ==
    IF W.exc /\ ~W.dead
    THEN [Logged(W, <<"caught", user, 0>>) EXCEPT !.exc = FALSE]
    ELSE [W EXCEPT !.exc = FALSE]

\* A handler that ends the process where the signal arrives
HandledByExit(W) == [Logged(W, <<"shutdown", "SIGTERM", 0>>)
                        EXCEPT !.run = FALSE, !.dead = TRUE, !.sigAt = -1]

\* _handle_signal, run by the interpreter where the signal arrives: it only
\* sets self.running
Handled(W) == [Logged(W, <<"shutdown", "SIGTERM", 0>>)
                  EXCEPT !.run = FALSE, !.sigAt = -1]

\* A point of the iteration where SIGTERM can arrive: W.sigAt counts the
\* points still to pass before it does (-1: no signal in this iteration)
SignalPoint(W) ==
    IF W.sigAt = 0 THEN Handled(W)
    ELSE [W EXCEPT !.sigAt = IF @ > 0 THEN @ - 1 ELSE @]

\* "for user in self.users: try: self._process_user(user) except Exception";
\* the signal points are before each user and after the last
RECURSIVE UsersLoop(_, _, _, _)
UsersLoop(W, userSeq, cpu, slow) ==
    IF W.dead THEN W
    ELSE IF userSeq = <<>> THEN SignalPoint(W)
    ELSE UsersLoop(Caught(ProcessUser(Logged(SignalPoint(W),
                                             <<"user", Head(userSeq), 0>>),
                                      Head(userSeq), cpu, slow),
                          Head(userSeq)),
                   Tail(userSeq), cpu, slow)

\* The daemon's view of the state at the start of a step
World ==
    [clk |-> clock, alive |-> alive, pat |-> patterns, seen |-> seenPids,
     cand |-> candidates, pend |-> strictPending, ev |-> events,
     msg |-> messageLog, log |-> <<>>, sig |-> {}, mode |-> mode,
     users |-> users, scanSeen |-> {}, sum |-> summary, hrs |-> hourly,
     sess |-> sessions, games |-> activeGames, exc |-> FALSE, dead |-> FALSE,
     kills |-> 0, cur |-> <<>>, run |-> running, sigAt |-> -1, denied |-> {},
     bcand |-> browserCandidates, web |-> NoBrowser, found |-> <<>>,
     hup |-> FALSE]

\* The state a step of the daemon leaves, W being its view at the end
Commit(W) ==
    /\ clock' = W.clk
    /\ alive' = W.alive
    /\ patterns' = W.pat
    /\ seenPids' = W.seen
    /\ candidates' = W.cand
    /\ strictPending' = W.pend
    /\ events' = W.ev
    /\ messageLog' = W.msg
    /\ tickLog' = W.log
    /\ signalled' = signalled \cup W.sig
    /\ mode' = W.mode
    /\ users' = W.users
    /\ summary' = W.sum
    /\ hourly' = W.hrs
    /\ sessions' = W.sess
    /\ activeGames' = W.games
    /\ browserCandidates' = W.bcand
    /\ born' = born

\* A loop that never reloads by itself
ReloadOnSignalOnly(W, count) == W

\* "if loop_count % 10 == 0: self._reload_config()"
ReloadIfDue(W, count) == IF count = 0 THEN ReloadConfig(W) ELSE W

\* The end of an iteration of the loop of run: the sleep, unless the daemon
\* killed itself in the iteration (it neither sleeps nor runs again); gap is
\* how long the machine is suspended in the sleep.
LoopEnd(W, gap) ==
    /\ running' = (W.run /\ ~W.dead)
    /\ Commit(IF W.dead THEN W ELSE [W EXCEPT !.clk = After(@, PollInterval + gap)])

\* "for user in self.users" of run, on the users the reload left
ProcessUsers(W, cpu, slow) == UsersLoop(W, W.users, cpu, slow)

\* One iteration of the loop of ClaudeDaemon.run, the sleep included: cpu is
\* what cpu_percent reports for each process, slow whether a terminated
\* process outlives the wait, gap how long the machine is suspended in the sleep.
LoopBodyOn(W, cpu, slow, gap) ==
    /\ running
    /\ loopCount' = (loopCount + 1) % ReloadEvery
    /\ LoopEnd(ProcessUsers(ReloadIfDue(W, (loopCount + 1) % ReloadEvery),
                            cpu, slow),
               gap)
    /\ sinceWrite' = Min(sinceWrite + 1, ReloadEvery)
    /\ UNCHANGED <<dbMode, userLimits, store>>

\* The iteration when no signal arrives in it and no signal the daemon
\* sends is refused
LoopBody(cpu, slow, gap) == LoopBodyOn(World, cpu, slow, gap)

\* ClaudeDaemon._handle_reload (SIGHUP)
HandleReload ==
    /\ running
    /\ Commit(ReloadConfig(World))
    /\ UNCHANGED <<dbMode, userLimits, running, loopCount, store, sinceWrite>>

\* ClaudeDaemon._handle_signal (SIGTERM, SIGINT): the loop ends
HandleSignal ==
    /\ running
    /\ running' = FALSE
    /\ UNCHANGED <<clock, alive, dbMode, userLimits, summary, hourly, sessions,
                   events, patterns, seenPids, mode, users, activeGames,
                   candidates, strictPending, loopCount, messageLog, tickLog,
                   signalled, store, sinceWrite, browserCandidates,
                   born>>

\* ClaudeDaemon.__init__ and the start of run: a new daemon process on the
\* same database
Start ==
    /\ ~running
    /\ running' = TRUE
    /\ activeGames' = [u \in AllUsers |-> <<>>]
    /\ candidates' = <<>>
    /\ strictPending' = <<>>
    /\ mode' = dbMode
    /\ users' = GetAllMonitoredUsers(userLimits)
    /\ loopCount' = 0
    /\ browserCandidates' = [u \in AllUsers |-> <<>>]
    /\ UNCHANGED <<clock, alive, dbMode, userLimits, summary, hourly, sessions,
                   events, patterns, seenPids, messageLog, tickLog, signalled,
                   store, sinceWrite, born>>

\* cmd_mode: the administrator sets the daemon mode in the database
SetMode(m) ==
    /\ dbMode # m
    /\ dbMode' = m
    /\ sinceWrite' = 0
    /\ UNCHANGED <<clock, alive, userLimits, summary, hourly, sessions, events,
                   patterns, seenPids, mode, users, activeGames, candidates,
                   strictPending, loopCount, running, messageLog, tickLog,
                   signalled, store, browserCandidates,
                   born>>

\* ActivityDB.set_pattern_state(pattern_id, state), as "discover ignore <id>"
\* and "discover disallow <id>" call it
SetPatternState(id, state) ==
    /\ id \in 1..Len(patterns)
    /\ patterns[id].monitor_state # state
    /\ patterns' = [patterns EXCEPT ![id].monitor_state = state]
    /\ UNCHANGED <<clock, alive, dbMode, userLimits, summary, hourly, sessions,
                   events, seenPids, mode, users, activeGames, candidates,
                   strictPending, loopCount, running, messageLog, tickLog,
                   signalled, store, sinceWrite, browserCandidates,
                   born>>

-----------------------------------------------------------------------------
(* The environment: the monitored user's processes *)

\* A process of the table starts (its parent is running or is init).
StartProc(p) ==
    /\ p \notin alive
    /\ ProcPpid(p) \in alive \cup {1}
    /\ alive' = alive \cup {p}
    /\ UNCHANGED <<clock, dbMode, userLimits, summary, hourly, sessions, events,
                   patterns, seenPids, mode, users, activeGames, candidates,
                   strictPending, loopCount, running, messageLog, tickLog,
                   signalled, store, sinceWrite, browserCandidates,
                   born>>

\* The same with the time of the start kept for the pid
StartProcAt(p) ==
    /\ p \notin alive
    /\ ProcPpid(p) \in alive \cup {1}
    /\ alive' = alive \cup {p}
    /\ born' = [born EXCEPT ![p] = clock]
    /\ UNCHANGED <<clock, dbMode, userLimits, summary, hourly, sessions, events,
                   patterns, seenPids, mode, users, activeGames, candidates,
                   strictPending, loopCount, running, messageLog, tickLog,
                   signalled, store, sinceWrite, browserCandidates>>

\* A process without running children exits by itself.
ExitProc(p) ==
    /\ p \in alive
    /\ \A c \in alive : ProcPpid(c) # p
    /\ alive' = alive \ {p}
    /\ UNCHANGED <<clock, dbMode, userLimits, summary, hourly, sessions, events,
                   patterns, seenPids, mode, users, activeGames, candidates,
                   strictPending, loopCount, running, messageLog, tickLog,
                   signalled, store, sinceWrite, browserCandidates,
                   born>>

-----------------------------------------------------------------------------
(* The database file: init_db, migrate_db *)

\* db.schedule_from_ranges: 168 characters, Monday 00 first
ScheduleFromRanges(wdS, wdE, weS, weE) ==
    [i \in 1..168 |->
        LET day == (i - 1) \div 24
            hour == (i - 1) % 24
            start == IF day >= 5 THEN weS ELSE wdS
            end == IF day >= 5 THEN weE ELSE wdE
        IN  IF start <= hour /\ hour < end THEN "1" ELSE "0"]

\* DEFAULT_DAILY_LIMITS, the text '120,120,120,120,120,120,120' as its fields
DefaultDailyLimits == [i \in 1..7 |-> 120]

\* format_daily_limits([gl] * 7): the seven fields of the stored text
SevenTimes(gl) == [i \in 1..7 |-> gl]

\* SQL NULL in a text column, in a column of hours or minutes, in the
\* schedule column and in the daily_limits column ('' is <<>>)
NullText == "NULL"

NullInt == -1

NullSchedule == <<"NULL">>

NullLimits == <<NullInt>>

\* The columns of process_patterns migrate_db adds, in its two steps, of
\* daily_summary, and those of an older user_limits table
StateColumns ==
    {"monitor_state", "owner", "discovered_cmdline", "unique_pid_count",
     "total_runtime_seconds", "last_seen"}

TypeColumns == {"pattern_type", "browser"}

SummaryStateColumns ==
    {"state", "gaming_active", "gaming_started_at", "last_poll_at",
     "warned_30", "warned_15", "warned_5"}

LegacyColumns ==
    {"weekday_start", "weekday_end", "weekend_start", "weekend_end", "gaming_limit"}

\* "ALTER TABLE t ADD COLUMN col ... DEFAULT d": the rows read d in the column
AddColumn(S, table, col, d) ==
    [S EXCEPT !.cols[table] = @ \cup {col},
              !.rows[table] = [i \in 1..Len(@) |-> @[i] @@ (col :> d)]]

\* "UPDATE t SET col = val WHERE col IS NULL"
FillNull(S, table, col, null, val) ==
    [S EXCEPT !.rows[table] =
        [i \in 1..Len(@) |-> IF @[i][col] = null THEN [@[i] EXCEPT ![col] = val]
                             ELSE @[i]]]

\* "CREATE TABLE IF NOT EXISTS t (...)"
CreateTable(S, table, cols) ==
    IF table \in DOMAIN S.cols THEN S
    ELSE [S EXCEPT !.cols = @ @@ (table :> cols), !.rows = @ @@ (table :> <<>>)]

\* "CREATE INDEX IF NOT EXISTS idx ON ..."
CreateIndex(S, idx) == [S EXCEPT !.idx = @ \cup {idx}]

\* "INSERT OR IGNORE INTO t (key, value, ...)" on a table with key as its
\* primary key
InsertOrIgnore(S, table, key, value) ==
    IF \E i \in 1..Len(S.rows[table]) : S.rows[table][i]["key"] = key THEN S
    ELSE [S EXCEPT !.rows[table] = Append(@, ("key" :> key) @@ ("value" :> value))]

\* The seeds of discovery_config and of daemon_config
SeedDiscoveryConfig(S) ==
    InsertOrIgnore(InsertOrIgnore(InsertOrIgnore(InsertOrIgnore(S,
        "discovery_config", "enabled", "1"),
        "discovery_config", "cpu_threshold", "25"),
        "discovery_config", "sample_window_seconds", "120"),
        "discovery_config", "min_samples", "3")

SeedDaemonConfig(S) ==
    InsertOrIgnore(InsertOrIgnore(S, "daemon_config", "mode", "normal"),
                   "daemon_config", "strict_grace_seconds", "30")

\* _seed_default_templates: the rows of its list (the first three of 25)
DefaultTemplates ==
    << ("intention" :> "process_start") @@ ("variant" :> 0),
       ("intention" :> "process_start") @@ ("variant" :> 1),
       ("intention" :> "process_start") @@ ("variant" :> 2) >>

SeedDefaultTemplates(S) ==
    [S EXCEPT !.rows["message_templates"] = @ \o DefaultTemplates]

\* migrate_db: "if 'monitor_state' not in columns" with its script
MigrateMonitorState(S) ==
    IF "monitor_state" \in S.cols["process_patterns"] THEN S
    ELSE FillNull(
           AddColumn(AddColumn(AddColumn(AddColumn(AddColumn(AddColumn(S,
               "process_patterns", "monitor_state", "active"),
               "process_patterns", "owner", NullText),
               "process_patterns", "discovered_cmdline", NullText),
               "process_patterns", "unique_pid_count", 0),
               "process_patterns", "total_runtime_seconds", 0),
               "process_patterns", "last_seen", NullText),
           "process_patterns", "monitor_state", NullText, "active")

\* migrate_db from "CREATE TABLE IF NOT EXISTS seen_pids" to the indexes of
\* the message tables
MigrateTables(S) ==
    CreateIndex(CreateIndex(
        CreateTable(CreateTable(
            SeedDaemonConfig(CreateTable(
                CreateIndex(CreateIndex(
                    SeedDiscoveryConfig(
                        CreateTable(CreateTable(S,
                            "seen_pids", {"pattern_id", "pid", "first_seen"}),
                            "discovery_config", {"key", "value"})),
                    "idx_patterns_state"), "idx_patterns_owner"),
                "daemon_config", {"key", "value"})),
            "message_templates", {"intention", "variant"}),
            "message_log", {"timestamp", "user", "intention"}),
        "idx_templates_intention"), "idx_message_log_user_time")

\* "if 'state' not in columns" with its script
MigrateSummaryState(S) ==
    IF "state" \in S.cols["daily_summary"] THEN S
    ELSE AddColumn(AddColumn(AddColumn(AddColumn(AddColumn(AddColumn(AddColumn(S,
             "daily_summary", "state", "available"),
             "daily_summary", "gaming_active", 0),
             "daily_summary", "gaming_started_at", NullText),
             "daily_summary", "last_poll_at", NullText),
             "daily_summary", "warned_30", 0),
             "daily_summary", "warned_15", 0),
             "daily_summary", "warned_5", 0)

\* "if count == 0" always true: the seeds are inserted at every run
TemplatesMissingAlways(S) == TRUE

\* "if count == 0", count being the number of rows of message_templates
TemplatesMissing(S) == Len(S.rows["message_templates"]) = 0

MigrateTemplates(S) == IF TemplatesMissing(S) THEN SeedDefaultTemplates(S) ELSE S

\* "if 'pattern_type' not in columns" with its script and index
MigratePatternType(S) ==
    IF "pattern_type" \in S.cols["process_patterns"] THEN S
    ELSE CreateIndex(
           FillNull(AddColumn(AddColumn(S,
                        "process_patterns", "pattern_type", "process"),
                        "process_patterns", "browser", NullText),
                    "process_patterns", "pattern_type", NullText, "process"),
           "idx_patterns_type")

\* "int(x.split(':')[0]) if x else d" on a column of hours
HourOr(x, d) == IF x = NullInt THEN d ELSE x

\* schedule_from_ranges on the four legacy columns of a row, each of them
\* replaced by its default (dS, dE at the start, the end) where it is empty
RowSchedule(row, wdS, wdE, weS, weE) ==
    ScheduleFromRanges(
        HourOr(HourOr(row["weekday_start"], wdS), 0),
        HourOr(HourOr(row["weekday_end"], wdE), 24),
        HourOr(HourOr(row["weekend_start"], weS), 0),
        HourOr(HourOr(row["weekend_end"], weE), 24))

\* "gl = row[1] or 120; dl = ','.join([str(gl)] * 7)"
RowLimits(row) ==
    SevenTimes(IF row["gaming_limit"] = NullInt \/ row["gaming_limit"] = 0
               THEN 120 ELSE row["gaming_limit"])

\* "UPDATE user_limits SET col = f(row) WHERE user = ?" for the rows selected
UpdateRows(S, col, selected(_), f(_)) ==
    [S EXCEPT !.rows["user_limits"] =
        [i \in 1..Len(@) |->
            IF selected(@[i]) THEN [@[i] EXCEPT ![col] = f(S.rows["user_limits"][i])]
            ELSE @[i]]]

\* "if 'schedule' not in ul_columns": the column, filled from the legacy
\* ranges where the table has them; ulCols is the set read before the change
MigrateSchedule(S, ulCols) ==
    IF "schedule" \in ulCols THEN S
    ELSE IF "weekday_start" \in ulCols
    THEN UpdateRows(AddColumn(S, "user_limits", "schedule", NullSchedule),
                    "schedule", LAMBDA row : TRUE,
                    LAMBDA row : RowSchedule(row, NullInt, NullInt, NullInt, NullInt))
    ELSE AddColumn(S, "user_limits", "schedule", NullSchedule)

\* "if 'daily_limits' not in ul_columns"
MigrateDailyLimits(S, ulCols) ==
    IF "daily_limits" \in ulCols THEN S
    ELSE IF "gaming_limit" \in ulCols
    THEN UpdateRows(AddColumn(S, "user_limits", "daily_limits", NullLimits),
                    "daily_limits", LAMBDA row : TRUE, RowLimits)
    ELSE AddColumn(S, "user_limits", "daily_limits", NullLimits)

\* "WHERE schedule IS NULL OR schedule = ''"
ScheduleEmpty(row) == row["schedule"] = NullSchedule \/ row["schedule"] = <<>>

\* "WHERE daily_limits IS NULL OR daily_limits = ''"
LimitsEmpty(row) == row["daily_limits"] = NullLimits \/ row["daily_limits"] = <<>>

\* The two backfills, for a table with the legacy columns
BackfillSchedule(S, ulCols) ==
    IF "weekday_start" \in ulCols
    THEN UpdateRows(S, "schedule", ScheduleEmpty,
                    LAMBDA row : RowSchedule(row, 16, 21, 9, 22))
    ELSE S

BackfillDailyLimits(S, ulCols) ==
    IF "gaming_limit" \in ulCols
    THEN UpdateRows(S, "daily_limits", LimitsEmpty, RowLimits)
    ELSE S

\* The part of migrate_db on user_limits: ul_columns is read once, before
\* the columns are added
MigrateUserLimits(S, ulCols) ==
    BackfillDailyLimits(
        BackfillSchedule(
            MigrateDailyLimits(MigrateSchedule(S, ulCols), ulCols),
            ulCols),
        ulCols)

MigrateUserLimitsOf(S) == MigrateUserLimits(S, S.cols["user_limits"])

\* The last script of migrate_db
MigrateHourly(S) ==
    CreateIndex(CreateTable(S, "hourly_activity",
                            {"date", "hour", "user", "gaming_seconds"}),
                "idx_hourly_user_date")

\* migrate_db
MigrateDb(S) ==
    MigrateHourly(
        MigrateUserLimitsOf(
            MigratePatternType(
                MigrateTemplates(
                    MigrateSummaryState(
                        MigrateTables(
                            MigrateMonitorState(S)))))))

\* The file init_db leaves where there was none: its tables without rows
\* (the columns migrate_db tests or writes, and the keys), its indexes, the
\* seeds of the two configuration tables
InitDbStore ==
    [cols |-> [t \in {"events", "daily_summary", "hourly_activity", "sessions",
                      "process_patterns", "seen_pids", "discovery_config",
                      "user_limits", "daemon_config", "message_templates",
                      "message_log"} |->
                 CASE t = "daily_summary" -> {"date", "user", "gaming_time"}
                   [] t = "process_patterns" ->
                        {"pattern", "name", "category"} \cup StateColumns \cup TypeColumns
                   [] t = "user_limits" -> {"user", "schedule", "daily_limits"}
                   [] t \in {"discovery_config", "daemon_config"} -> {"key", "value"}
                   [] t = "message_templates" -> {"intention", "variant"}
                   [] OTHER -> {"id"}],
     rows |-> [t \in {"events", "daily_summary", "hourly_activity", "sessions",
                      "process_patterns", "seen_pids", "discovery_config",
                      "user_limits", "daemon_config", "message_templates",
                      "message_log"} |->
                 CASE t = "discovery_config" ->
                        << ("key" :> "enabled") @@ ("value" :> "1"),
                           ("key" :> "cpu_threshold") @@ ("value" :> "25"),
                           ("key" :> "sample_window_seconds") @@ ("value" :> "120"),
                           ("key" :> "min_samples") @@ ("value" :> "3") >>
                   [] t = "daemon_config" ->
                        << ("key" :> "mode") @@ ("value" :> "normal"),
                           ("key" :> "strict_grace_seconds") @@ ("value" :> "30") >>
                   [] OTHER -> <<>>],
     idx |-> {"idx_events_user_date", "idx_daily_user_date", "idx_hourly_user_date",
              "idx_sessions_user_date", "idx_patterns_category", "idx_patterns_state",
              "idx_patterns_owner", "idx_templates_intention",
              "idx_message_log_user_time"},
     runs |-> 0]

\* A run of migrate_db on the file (runs: how many there were, history)
Migrated(S) == [MigrateDb(S) EXCEPT !.runs = @ + 1]

\* ActivityDB.__init__ on a new file: init_db, then migrate_db
FreshStore == Migrated(InitDbStore)

-----------------------------------------------------------------------------
(* Initial states and specifications *)

\* A process_patterns row as add_pattern inserts it
PatternRow(rx, name, category, state, cpuThreshold) ==
    [pattern |-> rx, name |-> name, category |-> category,
     monitor_state |-> state, owner |-> NoOwner, enabled |-> TRUE,
     cpu_threshold |-> cpuThreshold, unique_pid_count |-> 0,
     total_runtime_seconds |-> 0, last_seen |-> NoTime, pattern_type |-> "process"]

\* The gaming patterns of seed_default_patterns that match a process of the table
SeedPatterns ==
    << PatternRow(Rx(s_gamescope, FALSE, FALSE), s_SteamGame, "gaming", "active", 5),
       PatternRow(Rx(s_retroarch, FALSE, FALSE), s_RetroArch, "gaming", "active", 5) >>

AllOnes == [i \in 1..168 |-> "1"]

\* A schedule that allows every hour of Monday and no other hour
MondayOnly == [i \in 1..168 |-> IF i <= 24 THEN "1" ELSE "0"]

\* The daily limits (minutes, Mon..Sun) the initial states draw from
InitLimits ==
    { <<120, 120, 120, 120, 120, 120, 120>>,
      <<1, 0, 0, 0, 0, 0, 0>> }

\* Monday's daily_summary row at the start: none, or one an earlier run of the
\* daemon left behind after g seconds of gaming
InitRows ==
    {NoRow} \cup
    { [DefaultRow EXCEPT !.total_time = g, !.gaming_time = g,
                         !.last_poll_at = StartClock - PollInterval] :
        g \in {5370, 7170} }

\* "updates.setdefault('daily_total', 180)"
DefaultDailyTotal == 180

\* The state after the daemon's construction on a database with the given
\* contents; the users of monitored have a user_limits row, the others none
InitOn(monitored, modes, pats, schedules, limits, rows, stores) ==
    /\ clock = StartClock
    /\ alive = {ParentPid, OurPid}
    /\ dbMode \in modes
    /\ mode = dbMode
    /\ \E sch \in schedules, dl \in limits :
          userLimits = [u \in AllUsers |->
                           [present |-> u \in monitored,
                            enabled |-> IF u \in monitored THEN 1 ELSE 0,
                            daily_total |-> DefaultDailyTotal,
                            schedule |-> sch, daily_limits |-> dl]]
    /\ \E r \in rows :
          summary = [k \in Dates \X AllUsers |->
                        IF k[1] = Date(StartClock) /\ k[2] \in monitored
                        THEN r ELSE NoRow]
    /\ hourly = <<>>
    /\ sessions = <<>>
    /\ events = {}
    /\ patterns = pats
    /\ seenPids = {}
    /\ users = GetAllMonitoredUsers(userLimits)
    /\ activeGames = [u \in AllUsers |-> <<>>]
    /\ candidates = <<>>
    /\ strictPending = <<>>
    /\ loopCount = 0
    /\ running = TRUE
    /\ messageLog = <<>>
    /\ tickLog = <<>>
    /\ signalled = {}
    /\ store \in stores
    /\ sinceWrite = ReloadEvery
    /\ browserCandidates = [u \in AllUsers |-> <<>>]
    /\ born = [p \in Pids |-> 0]

\* The same on the file ActivityDB.__init__ makes where there was none
InitFor(monitored, modes, pats, schedules, limits, rows) ==
    InitOn(monitored, modes, pats, schedules, limits, rows, {FreshStore})

\* The state after construction with anders as the one monitored user
InitWith(modes, pats, schedules, limits, rows) ==
    InitFor({"anders"}, modes, pats, schedules, limits, rows)

CpuLevels == {0, 40}

\* What cpu_percent can report in a tick: the processes outside busy are idle.
CpuReadings(busy) ==
    {[p \in Pids |-> IF p \in busy \cap alive THEN f[p] ELSE 0] :
        f \in [busy \cap alive -> CpuLevels]}

\* The suspend of three poll intervals, or none
Gaps == {0, 3 * PollInterval}

\* The games of the accounting specification
GamePids == {21}

Init == InitWith({"normal", "passthrough"}, SeedPatterns, {AllOnes, MondayOnly},
                 InitLimits, InitRows)

RunLoop ==
    /\ clock < MaxClock
    /\ \E cpu \in CpuReadings(GamePids), slow \in BOOLEAN, gap \in Gaps :
          LoopBody(cpu, slow, gap)

GameStarts == \E p \in GamePids : StartProc(p)

GameExits == \E p \in GamePids : ExitProc(p)

Next ==
    \/ RunLoop
    \/ HandleSignal
    \/ Start
    \/ GameStarts
    \/ GameExits

Spec == Init /\ [][Next]_vars

\* The games of the specification with two games
LiveGames == {21, 23}

\* Normal mode, one minute of gaming on Monday and none after it, every hour
\* after Monday outside the schedule, no row yet
InitLive ==
    InitWith({"normal"}, SeedPatterns, {MondayOnly}, {<<1, 0, 0, 0, 0, 0, 0>>}, {NoRow})

\* The loop of run keeps iterating; the model's clock stops at ClockCap.
\* Every running game is busy.
RunLoopLive ==
    LoopBody([p \in Pids |-> IF p \in LiveGames \cap alive THEN 40 ELSE 0], FALSE, 0)

LiveGameStarts == \E p \in LiveGames : StartProc(p)

\* The user starts games and leaves them running: a game ends when the
\* daemon terminates it.
NextLive == RunLoopLive \/ LiveGameStarts

\* A step that advances loop_count: under NextLive, an iteration of the loop
Iterates == running /\ loopCount' = (loopCount + 1) % ReloadEvery

\* run() iterates for as long as self.running holds: the loop is weakly fair.
SpecLive == InitLive /\ [][NextLive]_vars /\ WF_loopCount(Iterates)

\* A shell that runs a game: its name is bash, its command line names retroarch
ShellGame == 22

\* The processes of the exclusion specification that can be busy
ExclBusy == {ParentPid, ShellGame}

InitExcl ==
    InitWith({"normal", "strict"}, SeedPatterns, {AllOnes},
             {<<120, 120, 120, 120, 120, 120, 120>>}, InitRows)

RunLoopExcl ==
    /\ clock < MaxClock
    /\ \E cpu \in CpuReadings(ExclBusy), slow \in BOOLEAN : LoopBody(cpu, slow, 0)

ShellGameStarts == StartProc(ShellGame)

ShellGameExits == ExitProc(ShellGame)

NextExcl == RunLoopExcl \/ ShellGameStarts \/ ShellGameExits

SpecExcl == InitExcl /\ [][NextExcl]_vars

\* The seeds and a pattern the administrator has disallowed (set_pattern_state)
SeedAndDisallowed ==
    Append(SeedPatterns,
           PatternRow(Rx(s_miner, FALSE, FALSE), s_Miner, NoCategory, "disallowed", 5))

\* The disallowed program of the scan specification
Miner == 25

DaemonModes == {"normal", "passthrough", "strict"}

InitScan ==
    InitWith(DaemonModes, SeedAndDisallowed, {AllOnes},
             {<<120, 120, 120, 120, 120, 120, 120>>}, {NoRow})

RunLoopScan ==
    /\ clock < MaxClock
    /\ \E cpu \in CpuReadings({Miner}), slow \in BOOLEAN : LoopBody(cpu, slow, 0)

MinerStarts == StartProc(Miner)

MinerExits == ExitProc(Miner)

NextScan == RunLoopScan \/ MinerStarts \/ MinerExits

SpecScan == InitScan /\ [][NextScan]_vars

-----------------------------------------------------------------------------
(* Accounting *)

\* C1: in every reachable state every daily summary row of every user
\* satisfies 0 <= gaming_time <= total_time.
C1_GamingWithinTotal ==
    \A k \in DOMAIN summary :
        summary[k].present =>
            /\ 0 <= summary[k].gaming_time
            /\ summary[k].gaming_time <= summary[k].total_time

\* The seconds of column col over all of a user's daily summary rows
RECURSIVE SumOver(_, _, _, _)
SumOver(sum, user, col, dates) ==
    IF dates = {} THEN 0
    ELSE LET d == CHOOSE x \in dates : TRUE
         IN  (IF sum[<<d, user>>].present THEN sum[<<d, user>>][col] ELSE 0)
                + SumOver(sum, user, col, dates \ {d})

GamingSeconds(user) == SumOver(summary, user, "gaming_time", Dates)

TotalSeconds(user) == SumOver(summary, user, "total_time", Dates)

\* A step that is an iteration of the daemon's loop: only its sleep moves the clock.
IsTick == clock' # clock

\* What a tick should add for a user: the capped time since the last poll if
\* today's stored state says gaming was active, else nothing
ExpectedAdd(user) ==
    LET st == summary[<<Date(clock), user>>]
    IN  IF st.present /\ st.gaming_active = 1 /\ st.last_poll_at # NoTime
        THEN Min(clock - st.last_poll_at, 2 * PollInterval)
        ELSE 0

\* C2: for an enabled user whose stored state has gaming_active = true and
\* last_poll_at = now - T, the next tick adds exactly min(T, 2*poll_interval)
\* seconds to the user's daily gaming_time and total_time; when gaming_active
\* was false it adds 0.
C2_TickAddsCappedElapsed ==
    [][ \A u \in AllUsers :
            (IsTick /\ userLimits[u].enabled = 1 /\ u \in {users[i] : i \in 1..Len(users)})
            => /\ GamingSeconds(u)' = GamingSeconds(u) + ExpectedAdd(u)
               /\ TotalSeconds(u)' = TotalSeconds(u) + ExpectedAdd(u) ]_vars

-----------------------------------------------------------------------------
(* Warnings *)

Thresholds == {30, 15, 5}

\* The rows of message_log for a date, a user and an intention
Fired(log, d, user, intention) ==
    IF <<d, user, intention>> \in DOMAIN log THEN log[<<d, user, intention>>] ELSE 0

WarnedFlag(row, n) ==
    CASE n = 30 -> row.warned_30 [] n = 15 -> row.warned_15 [] n = 5 -> row.warned_5

\* The remaining gaming seconds of a user on the day of t, after the Store's row
RemainingSeconds(sum, t, user) ==
    Max(0, GetDailyLimits(userLimits, user)[Weekday(t) + 1] * 60
              - GetTimeUsedToday(sum, t, user)[2])

RemainingMinutes(sum, t, user) == RemainingSeconds(sum, t, user) \div 60

\* C3: for each user, day and threshold N, time_warning_N is fired at most once
\* across ticks and restarts; it fires only in a tick where gaming is active,
\* the remaining minutes are <= N and warned_N = 0; that tick persists
\* warned_N = 1, and the flag of a day's row is never reset to 0.
C3_WarningAtMostOnce ==
    /\ [](\A d \in Dates, u \in AllUsers, n \in Thresholds :
            Fired(messageLog, d, u, TimeWarningIntention(n)) <= 1)
    /\ [][ \A u \in AllUsers, n \in Thresholds :
              Fired(messageLog', Date(clock), u, TimeWarningIntention(n))
                 > Fired(messageLog, Date(clock), u, TimeWarningIntention(n))
              => /\ activeGames'[u] # <<>>
                 /\ RemainingMinutes(summary', clock, u) <= n
                 /\ WarnedFlag(summary[<<Date(clock), u>>], n) = 0
                 /\ WarnedFlag(summary'[<<Date(clock), u>>], n) = 1 ]_vars
    /\ [][ \A k \in DOMAIN summary, n \in Thresholds :
              WarnedFlag(summary[k], n) = 1 => WarnedFlag(summary'[k], n) = 1 ]_vars

\* The first tick of a restarted daemon on a day on which time_warning_30 was
\* fired before the restart: the game is detected anew with at most 30 minutes
\* left, and no warning is fired.
C3_Witness ==
    /\ Fired(messageLog, Date(StartClock), "anders", "time_warning_30") = 1
    /\ summary[<<Date(StartClock), "anders">>].warned_30 = 1
    /\ summary[<<Date(StartClock), "anders">>].last_poll_at = StartClock + PollInterval
    /\ summary[<<Date(StartClock), "anders">>].gaming_active = 1
    /\ RemainingMinutes(summary, StartClock, "anders") \in 1..30
    /\ loopCount = 1
    /\ \E i \in 1..Len(tickLog) : tickLog[i][1] = "current" /\ tickLog[i][2] = "new"
    /\ \A i \in 1..Len(tickLog), n \in Thresholds :
          tickLog[i][2] # TimeWarningIntention(n)

-----------------------------------------------------------------------------
(* Enforcement of the daily limit *)

\* The positions of an entry in a tick's log
Idx(log, e) == {i \in 1..Len(log) : log[i] = e}

\* The tick found at least one game and no remaining time.
FoundExhausted(log) ==
    \E i \in 1..Len(log) :
        log[i][1] = "found" /\ log[i][2] = "exhausted" /\ log[i][3] > 0

\* C4: in normal mode, when a tick finds gaming active and remaining time <= 0,
\* then for each already-tracked gaming process, in this order within the tick:
\* time_expired is fired, grace_period is fired, strict_grace_seconds elapse, and
\* only then the process is sent a termination signal, its Session is closed
\* with end_reason = enforced and enforcement is fired; no tracked process with
\* an open Session is signalled before the grace wait has elapsed.
C4_ExpiryOrder ==
    [][ \A u \in AllUsers, p \in Pids :
          ( /\ IsTick
            /\ mode' = "normal"
            /\ p \in DOMAIN activeGames[u]
            /\ FoundExhausted(tickLog')
            /\ Idx(tickLog', <<"current", "tracked", p>>) # {} )
          => LET L == tickLog'
                 sid == activeGames[u][p].session_id
             IN  /\ \E a \in Idx(L, <<"intent", "time_expired", 0>>),
                       b \in Idx(L, <<"intent", "grace_period", 0>>),
                       c \in Idx(L, <<"sleep", "grace", 0>>),
                       d \in Idx(L, <<"signal", "SIGTERM", p>>),
                       e \in Idx(L, <<"intent", "enforcement", p>>) :
                       /\ a < b /\ b < c /\ c < d /\ c < e
                       /\ (sid # 0 /\ sessions[sid].open)
                             => /\ sessions'[sid].end_reason = "enforced"
                                /\ \E f \in Idx(L, <<"end_session", "enforced", p>>) :
                                      c < f
                 /\ \A d \in Idx(L, <<"signal", "SIGTERM", p>>)
                               \cup Idx(L, <<"signal", "SIGKILL", p>>) :
                       \E c \in Idx(L, <<"sleep", "grace", 0>>) : c < d ]_vars

\* A tracked game of an enabled user keeps running in normal mode with no
\* remaining gaming time for the day.
OverQuotaTracked(u, p) ==
    /\ mode = "normal"
    /\ userLimits[u].enabled = 1
    /\ p \in alive
    /\ p \in DOMAIN activeGames[u]
    /\ RemainingSeconds(summary, clock, u) <= 0

SentTermination(p) == Idx(tickLog, <<"signal", "SIGTERM", p>>) # {}

-----------------------------------------------------------------------------
(* The schedule *)

\* The schedule slot of a user at time t
Slot(user, t) == GetSchedule(userLimits, user)[Weekday(t) * 24 + HourOf(t) + 1]

\* C6: when a gaming process is newly detected in a tick while the user's
\* schedule slot is '0' and the mode is not passthrough, the tick fires
\* outside_hours, creates no Session row for the pid, adds no gaming time for
\* it, and sends the process a termination signal.
C6_OutsideHoursBlocked ==
    [][ \A u \in AllUsers, p \in Pids :
          ( /\ IsTick
            /\ mode' # "passthrough"
            /\ Slot(u, clock) = "0"
            /\ Idx(tickLog', <<"current", "new", p>>) # {} )
          => /\ Idx(tickLog', <<"intent", "outside_hours", 0>>) # {}
             /\ \A i \in (Len(sessions) + 1)..Len(sessions') : sessions'[i].pid # p
             /\ ExpectedAdd(u) = 0 => GamingSeconds(u)' = GamingSeconds(u)
             /\ Idx(tickLog', <<"signal", "SIGTERM", p>>) # {} ]_vars

-----------------------------------------------------------------------------
(* Safety exclusion *)

\* The processes a tick chose as the root of a termination
Roots(log) == {log[i][3] : i \in {j \in 1..Len(log) : log[j][1] = "signal"}}

\* C7: no process for which the safety exclusion rules hold is ever chosen as
\* the root of a termination, on any path.
C7_ExcludedNeverRoot ==
    \A p \in Roots(tickLog) : ~IsExcludedProcess(ProcName(p), ProcCmdline(p), p)

\* C8: the exclusion predicate is true for the daemon's own pid and for the pid
\* of the daemon's direct parent, so neither is ever matched, discovered or
\* terminated by a scan.
C8_DaemonAndParentExcluded ==
    \A p \in {OurPid, ProcPpid(OurPid)} :
        /\ IsExcludedProcess(ProcName(p), ProcCmdline(p), p)
        /\ \A sp \in seenPids : sp[2] # p
        /\ \A k \in DOMAIN candidates : candidates[k].pid # p
        /\ p \notin DOMAIN strictPending
        /\ p \notin signalled

\* The user's time warnings of date d sent by the step
WarnedNow(d, user) ==
    \E n \in Thresholds :
        Fired(messageLog', d, user, TimeWarningIntention(n))
            > Fired(messageLog, d, user, TimeWarningIntention(n))

\* C30: the daily_summary row a tick creates holds values of its own date
\* only: gaming_time is 0, and warned_30, warned_15 and warned_5 are 0 unless
\* the tick sent a time warning on that date; also when the tick began before
\* midnight or gaming was active across midnight.
C30_NewRowStartsClean ==
    [][ IsTick =>
          \A k \in DOMAIN summary :
              (~summary[k].present /\ summary'[k].present) =>
                  /\ summary'[k].gaming_time = 0
                  /\ \A n \in Thresholds :
                        WarnedFlag(summary'[k], n) = 0 \/ WarnedNow(k[1], k[2]) ]_vars

-----------------------------------------------------------------------------
(* Passthrough mode *)

\* C9: while the mode is passthrough, a call of _kill_process sends no signal
\* to the process or any descendant, records no terminated event, and leaves
\* the Store and all in-memory maps unchanged.
C9_PassthroughKillNoOp ==
    mode = "passthrough" =>
        /\ \A p \in Pids, u \in AllUsers, slow \in BOOLEAN :
              KillProcess(World, p, u, "KILLED", slow) = World
        /\ \A i \in 1..Len(tickLog) : tickLog[i][1] \notin {"signal", "child"}
        /\ \A e \in events : e.type # "terminated"

\* In passthrough mode a tick refused the launch of a game for lack of quota
\* and called _kill_process for it: the game is still running.
C9_Witness ==
    /\ mode = "passthrough"
    /\ \E p \in alive :
          /\ Idx(tickLog, <<"intent", "blocked_launch", p>>) # {}
          /\ [user |-> "anders", type |-> "blocked_quota", pid |-> p, details |-> ""]
                \in events
          /\ KillProcess(World, p, "anders", "KILLED", FALSE) = World
    /\ signalled = {}

\* The sessions closed with end_reason = enforced
Enforced(sess) == {i \in 1..Len(sess) : sess[i].end_reason = "enforced"}

\* C10: while the mode is passthrough, across any sequence of ticks no process
\* is signalled, no Session row is closed with end_reason = enforced, and no
\* daily summary's enforcements counter increases.
C10_PassthroughObservesOnly ==
    [][ (mode = "passthrough" /\ mode' = "passthrough")
        => /\ signalled' = signalled
           /\ Enforced(sessions') = Enforced(sessions)
           /\ \A k \in DOMAIN summary :
                 summary'[k].enforcements <= summary[k].enforcements ]_vars

-----------------------------------------------------------------------------
(* The scan: disallowed patterns, strict mode, discovery *)

\* The positions of the tick log where the scan matched a process to a
\* pattern in the given monitor state
MatchedAt(log, state) ==
    {i \in 1..Len(log) : log[i][1] = "matched" /\ log[i][2] = state}

-----------------------------------------------------------------------------
(* Strict mode with two monitored users *)

\* The processes no pattern of the catalogue matches: factorio of anders and
\* of bea
Unknowns == {24, 31}

\* Strict mode, anders and bea monitored, every hour allowed
InitStrict ==
    InitFor({"anders", "bea"}, {"strict"}, SeedPatterns, {AllOnes},
            {<<120, 120, 120, 120, 120, 120, 120>>}, {NoRow})

RunLoopStrict ==
    /\ clock < MaxClock
    /\ \E cpu \in CpuReadings(Unknowns), slow \in BOOLEAN : LoopBody(cpu, slow, 0)

\* The unknown processes start and keep running
UnknownStarts == \E p \in Unknowns : StartProc(p)

NextStrict == RunLoopStrict \/ UnknownStarts

SpecStrict == InitStrict /\ [][NextStrict]_vars

\* The positions of the tick's log where the scan met a process that matched
\* no pattern, busy, in strict mode
UnknownAt(log) ==
    {i \in 1..Len(log) : /\ log[i][1] = "unknown"
                         /\ log[i][2] = "strict"
                         /\ log[i][4] >= DiscoveryCpuThreshold}

\* C12: in strict mode, with any number of monitored users, an unmatched busy
\* process that was sent the strict warning in the previous tick (one poll
\* interval, the grace period, or more ago) and is met again by the scan,
\* still unmatched and busy, is sent SIGTERM in that tick, the enforcement
\* message is sent, and its pid is no longer in the strict-pending map.
C12_StrictGraceKill ==
    [][ IsTick =>
          \A i \in UnknownAt(tickLog') :
              LET p == tickLog'[i][3]
              IN  Idx(tickLog, <<"intent", "strict_warning", p>>) # {} =>
                      /\ Idx(tickLog', <<"signal", "SIGTERM", p>>) # {}
                      /\ Idx(tickLog', <<"intent", "enforcement", p>>) # {}
                      /\ p \notin DOMAIN strictPending' ]_vars

\* C29: with any number of monitored users, an iteration of the loop removes
\* from strict_pending only pids its scans did not meet: the entry of a
\* process that is still running and was neither matched nor terminated is
\* kept with its warned_at.
C29_StrictPendingKept ==
    [][ IsTick =>
          \A p \in DOMAIN strictPending :
              (p \in alive' /\ Idx(tickLog', <<"signal", "SIGTERM", p>>) = {}) =>
                  /\ p \in DOMAIN strictPending'
                  /\ strictPending'[p].warned_at = strictPending[p].warned_at ]_vars

-----------------------------------------------------------------------------
(* Discovery: the sampling of unknown processes and the catch-all promotion *)

\* seed_default_patterns with the catch-all for Windows games
SeedAndCatchAll ==
    Append(SeedPatterns, PatternRow(CatchAllRx, s_ProtonGame, "gaming", "active", 10))

\* factorio, which no pattern matches, and two processes named g.exe
DiscPids == {24, 27, 28}

\* Normal mode, anders monitored, every hour allowed, two hours a day
InitDisc ==
    InitWith({"normal"}, SeedAndCatchAll, {AllOnes},
             {<<120, 120, 120, 120, 120, 120, 120>>}, {NoRow})

\* factorio is busy or idle; the g.exe processes idle (the promotion from the
\* catch-all does not look at the cpu)
RunLoopDisc ==
    /\ clock < MaxClock
    /\ \E cpu \in CpuReadings({24}) : LoopBody(cpu, FALSE, 0)

DiscStarts == \E p \in DiscPids : StartProc(p)

DiscExits == \E p \in DiscPids : ExitProc(p)

NextDisc == RunLoopDisc \/ DiscStarts \/ DiscExits

SpecDisc == InitDisc /\ [][NextDisc]_vars

\* C13: the catalogue never holds two rows with the same name and the same
\* owner, whatever the scans observed (several processes of one name in one
\* scan, repeated sample windows).
C13_OneRowPerNameOwner ==
    \A i, j \in 1..Len(patterns) :
        i # j => ~(/\ patterns[i].name = patterns[j].name
                   /\ patterns[i].owner = patterns[j].owner)

\* The positions of the tick's log where the scan met a process that matched
\* no pattern and whose cpu reached the discovery threshold
SampledAt(log) ==
    {i \in 1..Len(log) : log[i][1] = "unknown" /\ log[i][4] >= DiscoveryCpuThreshold}

\* The samples of a candidate that lie inside the window ending at now
InWindow(samples, now) ==
    SelectSeq(samples, LAMBDA t : now - t <= SampleWindowSeconds)

\* The samples the candidates map holds for a user's process name
SamplesOf(cands, key) == IF key \in DOMAIN cands THEN cands[key].samples ELSE <<>>

\* The rows of the catalogue with the given name and owner
RowsNamed(pats, name, owner) ==
    {k \in 1..Len(pats) : pats[k].name = name /\ pats[k].owner = owner}

\* C14: in normal mode, when the scan meets an unmatched process of user U
\* with cpu at or above the discovery threshold, this sample is at least the
\* min_samples-th inside the sample window, and no catalogue entry with the
\* process name exists for U, the tick inserts one row for (name, U) with
\* monitor_state discovered, no category, cpu_threshold 5 and the escaped
\* process name as pattern, sends the discovery message, and removes the
\* candidate from the candidates map.
C14_SamplingDiscovery ==
    [][ IsTick /\ mode = "normal" =>
          \A i \in SampledAt(tickLog') :
              LET p == tickLog'[i][3]
                  u == ProcUser(p)
                  name == ProcName(p)
                  key == <<u, name>>
                  rows == RowsNamed(patterns', name, u)
              IN  (/\ Len(InWindow(SamplesOf(candidates, key), clock)) + 1 >= MinSamples
                   /\ GetPatternByNameAndOwner(patterns, name, u) = 0)
                  => /\ Cardinality(rows) = 1
                     /\ \A k \in rows :
                           /\ k > Len(patterns)
                           /\ patterns'[k].monitor_state = "discovered"
                           /\ patterns'[k].category = NoCategory
                           /\ patterns'[k].cpu_threshold = DiscoveredCpuThreshold
                           /\ patterns'[k].pattern = Escape(name)
                     /\ Idx(tickLog', <<"intent", "discovery", p>>) # {}
                     /\ key \notin DOMAIN candidates' ]_vars

\* A tick has just discovered factorio of anders by sampling.
C14_Witness ==
    /\ \E k \in RowsNamed(patterns, s_factorio, "anders") :
          patterns[k].monitor_state = "discovered"
    /\ Idx(tickLog, <<"intent", "discovery", 24>>) # {}
    /\ <<"anders", s_factorio>> \notin DOMAIN candidates

\* The positions of the tick's log where the scan matched a process whose
\* name ends in .exe to the global catch-all pattern
CatchAllAt(log, pats) ==
    {i \in 1..Len(log) : /\ log[i][1] = "matched"
                         /\ pats[log[i][4]].owner = NoOwner
                         /\ pats[log[i][4]].pattern = CatchAllRx
                         /\ EndsWith(LowerStr(ProcName(log[i][3])), s_exe)}

\* The rows of the catalogue owned by the user whose pattern is the escaped
\* process name
RowsFor(pats, owner, procName) ==
    {k \in 1..Len(pats) : pats[k].owner = owner /\ pats[k].pattern = Escape(procName)}

\* "FalloutNV.exe" -> "FalloutNV"
WithoutExe(procName) == SubSeq(procName, 1, Len(procName) - 4)

\* C15: when the scan matches a process of user U named *.exe to the global
\* catch-all and U has no pattern for that process name, the tick creates a
\* row owned by U with monitor_state active, the catch-all's category, the
\* process name without .exe as name and the escaped process name as
\* pattern; when U already has a pattern for that process name nothing is
\* created, so a tick creates at most one row per user and process name.
C15_CatchAllPromotion ==
    [][ IsTick =>
          \A i \in CatchAllAt(tickLog', patterns) :
              LET p == tickLog'[i][3]
                  m == tickLog'[i][4]
                  u == ProcUser(p)
                  created == {k \in RowsFor(patterns', u, ProcName(p)) :
                                 k > Len(patterns)}
              IN  /\ RowsFor(patterns, u, ProcName(p)) = {} =>
                        \E k \in created :
                            /\ patterns'[k].monitor_state = "active"
                            /\ patterns'[k].category = patterns[m].category
                            /\ patterns'[k].name = WithoutExe(ProcName(p))
                  /\ RowsFor(patterns, u, ProcName(p)) # {} => created = {}
                  /\ Cardinality(created) <= 1 ]_vars

-----------------------------------------------------------------------------
(* Attribution: a user-owned pattern and a global one match the same process *)

\* g.exe of anders
ExeGame == 27

RunLoopAttr ==
    /\ clock < MaxClock
    /\ \E cpu \in CpuReadings({ExeGame}) : LoopBody(cpu, FALSE, 0)

ExeStarts == StartProc(ExeGame)

ExeExits == ExitProc(ExeGame)

\* playtimed discover ignore <id>, for a pattern owned by a user
IgnoreOwned ==
    \E id \in 1..Len(patterns) :
        /\ patterns[id].owner # NoOwner
        /\ SetPatternState(id, "ignored")

NextAttr == RunLoopAttr \/ ExeStarts \/ ExeExits \/ IgnoreOwned

SpecAttr == InitDisc /\ [][NextAttr]_vars

\* C16: a process that the scan of a tick matched to a pattern owned by its
\* user is treated by that pattern alone: when the same tick counts the
\* process as a game, the pattern that made it a game is that same pattern,
\* never a global one with another state or category.
C16_OneAttribution ==
    [][ IsTick =>
          \A i, j \in 1..Len(tickLog') :
              (/\ tickLog'[i][1] = "matched"
               /\ tickLog'[j][1] = "game"
               /\ tickLog'[i][3] = tickLog'[j][3]
               /\ patterns[tickLog'[i][4]].owner = ProcUser(tickLog'[i][3]))
              => tickLog'[j][4] = tickLog'[i][4] ]_vars

-----------------------------------------------------------------------------
(* Owner scoping: a pattern of anders and a process of bea with the same name *)

\* The catalogue after anders' factorio was discovered and the administrator
\* ran "discover disallow" on the row
SeedAndOwned ==
    Append(SeedPatterns,
           [PatternRow(Escape(s_factorio), s_factorio, NoCategory, "disallowed",
                       DiscoveredCpuThreshold)
               EXCEPT !.owner = "anders"])

\* factorio of anders and factorio of bea
Factorios == {24, 31}

\* factorio of bea
Other == 31

\* Normal mode, anders and bea monitored, every hour allowed
InitOwner ==
    InitFor({"anders", "bea"}, {"normal"}, SeedAndOwned, {AllOnes},
            {<<120, 120, 120, 120, 120, 120, 120>>}, {NoRow})

\* The terminated process is gone at once, so that every scan of the tick
\* reads the same time
RunLoopOwner ==
    /\ clock < MaxClock
    /\ \E cpu \in CpuReadings(Factorios) : LoopBody(cpu, FALSE, 0)

FactorioStarts == \E p \in Factorios : StartProc(p)

NextOwner == RunLoopOwner \/ FactorioStarts

SpecOwner == InitOwner /\ [][NextOwner]_vars

\* The owner of a pattern applies to the process: it is the process's user,
\* or the pattern is global
Applies(pats, m, pid) == pats[m].owner \in {NoOwner, ProcUser(pid)}

-----------------------------------------------------------------------------
(* Sessions across daemon restarts *)

\* The rows of sessions with null end_time for a pid and a user
OpenRows(sess, pid, user) ==
    {i \in 1..Len(sess) : sess[i].open /\ sess[i].pid = pid /\ sess[i].user = user}

\* C18: after any ticks and restarts of the daemon, sessions holds at most
\* one row with null end_time per (pid, user); a restart while a game runs
\* does not open a second one.
C18_OneOpenSession ==
    \A p \in Pids, u \in AllUsers : Cardinality(OpenRows(sessions, p, u)) <= 1

-----------------------------------------------------------------------------
(* Hysteresis of the gaming set *)

\* The positions of the tick's log where _find_gaming_processes looked at a
\* tracked pid
TrackedAt(log) == {i \in 1..Len(log) : log[i][1] = "probe" /\ log[i][5] >= 0}

\* The counters with which the tick's log puts the pid in the gaming set
InGamingSet(log, pid) ==
    {log[j][5] : j \in {k \in 1..Len(log) : log[k][1] = "game" /\ log[k][3] = pid}}

-----------------------------------------------------------------------------
(* The administrator's commands on the user_limits rows *)

\* An argument the command line did not give (argparse's None)
NoArg == -1000

\* "args.gaming_limit or 120": None and 0 give the default
OrDefault(x, d) == IF x = NoArg \/ x = 0 THEN d ELSE x

\* "args.weekday_start or '16:00'", the argument being the hour of an HH:MM text
OrDefaultTime(x, d) == IF x = NoArg THEN d ELSE x

\* The row set_user_limits inserts for a user without one
NewUserRow(updates) ==
    [present |-> TRUE,
     enabled |-> IF "enabled" \in DOMAIN updates THEN updates["enabled"] ELSE 1,
     daily_total |-> IF "daily_total" \in DOMAIN updates THEN updates["daily_total"]
                     ELSE DefaultDailyTotal,
     schedule |-> IF "schedule" \in DOMAIN updates THEN updates["schedule"]
                  ELSE ScheduleFromRanges(16, 21, 9, 22),
     daily_limits |-> IF "daily_limits" \in DOMAIN updates THEN updates["daily_limits"]
                      ELSE DefaultDailyLimits]

\* The UPDATE of set_user_limits on an existing row
UpdatedRow(row, updates) ==
    [f \in DOMAIN row |-> IF f \in DOMAIN updates THEN updates[f] ELSE row[f]]

\* ActivityDB.set_user_limits(user, **kwargs) with the kwargs the commands
\* pass: the columns given directly, gaming_limit (0 or NoArg: not passed) and
\* the four time ranges (ranges: whether they are passed)
SetUserLimits(row, columns, gamingLimit, ranges, wdS, wdE, weS, weE) ==
    LET withLimits == IF gamingLimit # NoArg
                      THEN columns @@ ("daily_limits" :> SevenTimes(gamingLimit))
                      ELSE columns
        updates == IF ranges
                   THEN withLimits @@ ("schedule" :> ScheduleFromRanges(wdS, wdE, weS, weE))
                   ELSE withLimits
    IN  IF row.present THEN UpdatedRow(row, updates) ELSE NewUserRow(updates)

\* The write of a command to the row of one user
WriteRow(user, row) ==
    /\ userLimits' = [userLimits EXCEPT ![user] = row]
    /\ UNCHANGED <<clock, alive, dbMode, summary, hourly, sessions, events,
                   patterns, seenPids, mode, users, activeGames, candidates,
                   strictPending, loopCount, running, messageLog, tickLog,
                   signalled, store, sinceWrite, browserCandidates,
                   born>>

\* playtimed user add <user> [--gaming-limit n] [--weekday-start HH:MM]
UserAdd(user, gamingLimit, weekdayStart) ==
    WriteRow(user,
             SetUserLimits(userLimits[user],
                           "daily_total" :> OrDefault(NoArg, DefaultDailyTotal),
                           OrDefault(gamingLimit, 120), TRUE,
                           OrDefaultTime(weekdayStart, 16), OrDefaultTime(NoArg, 21),
                           OrDefaultTime(NoArg, 9), OrDefaultTime(NoArg, 22)))

\* playtimed user enable <user>, playtimed user disable <user>
UserEnable(user, enabled) ==
    /\ ~(userLimits[user].present /\ userLimits[user].enabled = enabled)
    /\ WriteRow(user, SetUserLimits(userLimits[user], "enabled" :> enabled,
                                    NoArg, FALSE, 0, 0, 0, 0))

\* playtimed user edit <user>, a number typed at the prompt
UserEdit(user, val) ==
    /\ userLimits[user].present
    /\ userLimits[user].daily_total # val
    /\ WriteRow(user, SetUserLimits(userLimits[user], "daily_total" :> val,
                                    NoArg, FALSE, 0, 0, 0, 0))

\* db.DAYS
DAYS == <<"mon", "tue", "wed", "thu", "fri", "sat", "sun">>

\* DAYS.index(name): the index from 0, or -1 where Python raises ValueError
DayIndex(name) ==
    IF \E i \in 1..7 : DAYS[i] = name
    THEN (CHOOSE i \in 1..7 : DAYS[i] = name) - 1
    ELSE -1

\* _parse_schedule_spec: the (day, hour) pairs of a spec with its day and
\* hour ranges (a single day or hour is a range of one; all is 0..23)
SpecSlots(spec) ==
    {<<d, h>> : d \in DayIndex(spec.dstart)..DayIndex(spec.dend),
                h \in (IF spec.all THEN 0 ELSE spec.hstart)..
                      (IF spec.all THEN 23 ELSE spec.hend)}

\* _parse_schedule_spec raises ValueError
SpecInvalid(spec) ==
    \/ spec.action \notin {"+", "-"}
    \/ DayIndex(spec.dstart) = -1
    \/ DayIndex(spec.dend) = -1

\* "schedule[idx] = ..." raises IndexError: Python takes -168..167
IndexInvalid(spec) ==
    \E sl \in SpecSlots(spec) : sl[1] * 24 + sl[2] > 167 \/ sl[1] * 24 + sl[2] < -168

\* The position of the list (from 1) a Python index names
ListPos(idx) == IF idx >= 0 THEN idx + 1 ELSE idx + 168 + 1

\* The loop "for day, hour, allowed in changes" of cmd_schedule_set for one spec
ApplySpec(schedule, spec) ==
    [i \in 1..Len(schedule) |->
        IF \E sl \in SpecSlots(spec) : ListPos(sl[1] * 24 + sl[2]) = i
        THEN (IF spec.action = "+" THEN "1" ELSE "0")
        ELSE schedule[i]]

RECURSIVE ApplySpecs(_, _)
ApplySpecs(schedule, specs) ==
    IF specs = <<>> THEN schedule
    ELSE ApplySpecs(ApplySpec(schedule, Head(specs)), Tail(specs))

\* No spec of the list makes cmd_schedule_set leave through
\* "except (ValueError, IndexError)"
SetAccepted(specs) ==
    \A k \in 1..Len(specs) : ~SpecInvalid(specs[k]) /\ ~IndexInvalid(specs[k])

\* playtimed schedule set <user> <spec>[,<spec>]: an invalid spec ends the
\* command before anything is written
ScheduleSet(user, specs) ==
    /\ userLimits[user].present
    /\ SetAccepted(specs)
    /\ WriteRow(user, [userLimits[user] EXCEPT
                          !.schedule = ApplySpecs(@, specs)])

\* "min(1440, max(0, val))"
ClampLimit(val) == IF val < 0 THEN 0 ELSE IF val > 1440 THEN 1440 ELSE val

\* What one key of the editor of cmd_schedule_edit does to the row: ENTER on
\* a cell of the grid, a number typed in the limit column, + and - there
EditKey(row, key, day, hour, val) ==
    CASE key = "toggle" ->
            [row EXCEPT !.schedule[day * 24 + hour + 1] = IF @ = "1" THEN "0" ELSE "1"]
      [] key = "type" ->
            [row EXCEPT !.daily_limits[day + 1] = ClampLimit(val)]
      [] key = "+" ->
            [row EXCEPT !.daily_limits[day + 1] = IF @ + 15 > 1440 THEN 1440 ELSE @ + 15]
      [] key = "-" ->
            [row EXCEPT !.daily_limits[day + 1] = IF @ - 15 < 0 THEN 0 ELSE @ - 15]

\* playtimed schedule edit <user>: one key, then q (save)
ScheduleEdit(user, key, day, hour, val) ==
    /\ userLimits[user].present
    /\ WriteRow(user, EditKey(userLimits[user], key, day, hour, val))

\* The validation of cmd_schedule_import for one entry of the file
ImportValid(entry) ==
    /\ Len(entry.schedule) = 168
    /\ \A i \in 1..Len(entry.schedule) : entry.schedule[i] \in {"0", "1"}
    /\ entry.has_limits =>
          /\ Len(entry.daily_limits) = 7
          /\ \A i \in 1..Len(entry.daily_limits) : entry.daily_limits[i] >= 0

\* db.set_schedule and, with a daily_limits key in the entry,
\* db.set_daily_limits (format_daily_limits: one field per number)
ImportedRow(row, entry) ==
    [row EXCEPT !.schedule = entry.schedule,
                !.daily_limits = IF entry.has_limits THEN entry.daily_limits ELSE @]

\* playtimed schedule import <file> with one user's entry in the file
ScheduleImport(user, entry) ==
    /\ userLimits[user].present
    /\ ImportValid(entry)
    /\ WriteRow(user, ImportedRow(userLimits[user], entry))

\* db.DEFAULT_SCHEDULE: '0' * SCHEDULE_LEN
DEFAULT_SCHEDULE == [i \in 1..168 |-> "0"]

\* parse_daily_limits: no text or not seven fields gives seven times 120
ParseDailyLimits(fields) ==
    IF fields = <<>> \/ Len(fields) # 7 THEN DefaultDailyLimits ELSE fields

\* The entry cmd_schedule_export prints for a user with a row:
\* get_schedule ("or DEFAULT_SCHEDULE") and get_daily_limits
ScheduleExport(row) ==
    [schedule |-> IF row.schedule = <<>> THEN DEFAULT_SCHEDULE ELSE row.schedule,
     has_limits |-> TRUE,
     daily_limits |-> ParseDailyLimits(row.daily_limits)]

\* The inputs of the administrator's commands
GamingLimitArgs == {NoArg, -5}

WeekdayStartArgs == {NoArg, 7}

DailyTotalInputs == {240}

SpecOf(dstart, dend, all, hstart, hend, action) ==
    [dstart |-> dstart, dend |-> dend, all |-> all, hstart |-> hstart,
     hend |-> hend, action |-> action]

\* mon..fri 16..21 +,sat..sun all - ; mon 24 + ; sun 24 + ; mon 16 x ; xyz 16 +
SpecLists ==
    { <<SpecOf("mon", "fri", FALSE, 16, 21, "+"), SpecOf("sat", "sun", TRUE, 0, 0, "-")>>,
      <<SpecOf("mon", "mon", FALSE, 24, 24, "+")>>,
      <<SpecOf("sun", "sun", FALSE, 24, 24, "+")>>,
      <<SpecOf("mon", "mon", FALSE, 16, 16, "x")>>,
      <<SpecOf("xyz", "xyz", FALSE, 16, 16, "+")>> }

\* The keys of the editor: ENTER on Monday 00, 9999 typed as Monday's limit,
\* + and - on Monday's limit
EditKeys == {<<"toggle", 0>>, <<"type", 9999>>, <<"+", 0>>, <<"-", 0>>}

\* The + and - keys are pressed while the limit is within EdgeSteps steps of
\* 15 minutes of 0 or of 1440
EdgeSteps == 1

NearEdge(lim) == lim <= 15 * EdgeSteps \/ lim >= 1440 - 15 * EdgeSteps

\* The entries of the import file: a valid one with and without limits, a
\* schedule of 167 characters, a schedule with a 2, a negative limit, six limits
ImportEntries ==
    { [schedule |-> MondayOnly, has_limits |-> FALSE, daily_limits |-> <<>>],
      [schedule |-> AllOnes, has_limits |-> TRUE,
       daily_limits |-> <<1, 0, 0, 0, 0, 0, 0>>],
      [schedule |-> [i \in 1..167 |-> "1"], has_limits |-> FALSE, daily_limits |-> <<>>],
      [schedule |-> [i \in 1..168 |-> IF i = 1 THEN "2" ELSE "1"],
       has_limits |-> FALSE, daily_limits |-> <<>>],
      [schedule |-> AllOnes, has_limits |-> TRUE,
       daily_limits |-> <<-1, 0, 0, 0, 0, 0, 0>>],
      [schedule |-> AllOnes, has_limits |-> TRUE,
       daily_limits |-> <<1, 0, 0, 0, 0, 0>>] }

\* anders has a row; bea has none yet
InitAdmin ==
    InitWith({"normal"}, SeedPatterns, {AllOnes},
             {<<120, 120, 120, 120, 120, 120, 120>>}, {NoRow})

AdminUserAdd ==
    \E u \in AllUsers, gl \in GamingLimitArgs, ws \in WeekdayStartArgs :
        UserAdd(u, gl, ws)

AdminUserEnable == \E e \in {0, 1} : UserEnable("anders", e)

AdminUserEdit == \E val \in DailyTotalInputs : UserEdit("anders", val)

AdminScheduleSet == \E specs \in SpecLists : ScheduleSet("anders", specs)

AdminScheduleEdit ==
    \E k \in EditKeys :
        /\ k[1] \in {"+", "-"} => NearEdge(userLimits["anders"].daily_limits[1])
        /\ ScheduleEdit("anders", k[1], 0, 0, k[2])

AdminScheduleImport == \E entry \in ImportEntries : ScheduleImport("anders", entry)

NextAdmin ==
    \/ AdminUserAdd
    \/ AdminUserEnable
    \/ AdminUserEdit
    \/ AdminScheduleSet
    \/ AdminScheduleEdit
    \/ AdminScheduleImport

SpecAdmin == InitAdmin /\ [][NextAdmin]_vars

\* C20: after any sequence of the administrator's commands (user add, edit,
\* enable, disable, schedule set, edit, import) every user row has a schedule
\* of exactly 168 characters, each 0 or 1, and exactly 7 daily limits, each an
\* integer of at least 0.
C20_RowsWellFormed ==
    \A u \in AllUsers :
        userLimits[u].present =>
            /\ Len(userLimits[u].schedule) = 168
            /\ \A i \in 1..Len(userLimits[u].schedule) :
                  userLimits[u].schedule[i] \in {"0", "1"}
            /\ Len(userLimits[u].daily_limits) = 7
            /\ \A i \in 1..Len(userLimits[u].daily_limits) :
                  userLimits[u].daily_limits[i] >= 0

\* C21: for every enrolled user the administrator's commands can produce,
\* importing the entry schedule export prints for the user passes the
\* validation of the import and leaves the user's schedule and daily limits
\* as they were before the export.
C21_ExportImportIdentity ==
    \A u \in AllUsers :
        userLimits[u].present =>
            /\ ImportValid(ScheduleExport(userLimits[u]))
            /\ ImportedRow(userLimits[u], ScheduleExport(userLimits[u])).schedule
                  = userLimits[u].schedule
            /\ ImportedRow(userLimits[u], ScheduleExport(userLimits[u])).daily_limits
                  = userLimits[u].daily_limits

-----------------------------------------------------------------------------
(* migrate_db on the files of older versions *)

\* How many times migrate_db runs on one file
MaxRuns == 3

\* A row of process_patterns, of daily_summary and of user_limits with the
\* given columns; the state columns of the summary row hold a day's state
PatternOf(cols) ==
    [c \in cols |->
        CASE c = "pattern" -> "steam" [] c = "name" -> "Steam"
          [] c = "category" -> "launcher" [] c = "monitor_state" -> "ignored"
          [] c = "pattern_type" -> "process"
          [] c \in {"unique_pid_count", "total_runtime_seconds"} -> 7
          [] OTHER -> NullText]

SummaryOf(cols) ==
    [c \in cols |->
        CASE c = "date" -> 0 [] c = "user" -> "anders" [] c = "gaming_time" -> 3600
          [] c = "state" -> "available"
          [] c \in {"gaming_active", "warned_30", "warned_15"} -> 1
          [] c = "warned_5" -> 0
          [] OTHER -> NullText]

LimitsOf(cols, ws, gl, sch, dl) ==
    [c \in cols |->
        CASE c = "user" -> "anders" [] c = "weekday_start" -> ws
          [] c = "weekday_end" -> 20 [] c = "weekend_start" -> NullInt
          [] c = "weekend_end" -> 22 [] c = "gaming_limit" -> gl
          [] c = "schedule" -> sch [] c = "daily_limits" -> dl]

\* The column sets of the three tables in the files of older versions
PatternColumnSets ==
    { {"pattern", "name", "category"},
      {"pattern", "name", "category"} \cup StateColumns,
      {"pattern", "name", "category"} \cup StateColumns \cup TypeColumns }

SummaryColumnSets ==
    { {"date", "user", "gaming_time"},
      {"date", "user", "gaming_time"} \cup SummaryStateColumns }

LimitsColumnSets ==
    { {"user"} \cup LegacyColumns,
      {"user", "schedule"} \cup LegacyColumns,
      {"user", "schedule", "daily_limits"} \cup LegacyColumns,
      {"user", "schedule", "daily_limits"} }

\* The rows of user_limits: start hour and limit empty or not, schedule and
\* limits NULL, '' or set
LimitsRows(cols) ==
    { LimitsOf(cols, ws, gl, sch, dl) :
        ws \in {NullInt, 15},
        gl \in (IF "gaming_limit" \in cols THEN {NullInt, 0, 90} ELSE {NullInt}),
        sch \in (IF "schedule" \in cols THEN {NullSchedule, <<>>, MondayOnly}
                 ELSE {NullSchedule}),
        dl \in (IF "daily_limits" \in cols
                THEN {NullLimits, <<>>, <<60, 60, 60, 60, 60, 0, 0>>}
                ELSE {NullLimits}) }

\* The file of an older version after init_db: its three tables as they
\* were, with a row each, the other tables as init_db makes them, the
\* templates none or the administrator's one, the mode the seed or strict
LegacyStore(pc, sc, lc, lrow, templates, modeValue) ==
    [InitDbStore EXCEPT
        !.cols["process_patterns"] = pc,
        !.rows["process_patterns"] = <<PatternOf(pc)>>,
        !.cols["daily_summary"] = sc,
        !.rows["daily_summary"] = <<SummaryOf(sc)>>,
        !.cols["user_limits"] = lc,
        !.rows["user_limits"] = <<lrow>>,
        !.rows["message_templates"] = templates,
        !.rows["daemon_config"][1]["value"] = modeValue]

LegacyStores ==
    { LegacyStore(pc, sc, lc, lrow, t, m) :
        pc \in PatternColumnSets, sc \in SummaryColumnSets,
        lc \in LimitsColumnSets,
        lrow \in UNION {LimitsRows(c) : c \in LimitsColumnSets},
        t \in {<<>>, <<("intention" :> "custom") @@ ("variant" :> 0)>>},
        m \in {"normal", "strict"} }

WellShaped(S) == DOMAIN S.rows["user_limits"][1] = S.cols["user_limits"]

InitMig ==
    InitOn({"anders"}, {"normal"}, SeedPatterns, {AllOnes},
           {<<120, 120, 120, 120, 120, 120, 120>>}, {NoRow},
           {S \in LegacyStores : WellShaped(S)})

\* The variables of the daemon and of its tables, which a step on the file
\* alone leaves as they are
OnStore ==
    UNCHANGED <<clock, alive, dbMode, userLimits, summary, hourly, sessions,
                events, patterns, seenPids, mode, users, activeGames,
                candidates, strictPending, loopCount, running, messageLog,
                tickLog, signalled, sinceWrite, browserCandidates,
                   born>>

\* migrate_db(db_path)
MigrateStore ==
    /\ store.runs < MaxRuns
    /\ store' = Migrated(store)
    /\ OnStore

\* db.set_schedule(user, schedule) on the migrated file
StoreSetSchedule ==
    /\ store.runs >= 1
    /\ store.rows["user_limits"][1]["schedule"] # AllOnes
    /\ store' = [store EXCEPT !.rows["user_limits"][1]["schedule"] = AllOnes]
    /\ OnStore

\* db.update_user_state(user, gaming_active=0, gaming_time=..., warned_5=1)
\* on the migrated file
StoreUpdateUserState ==
    /\ store.runs >= 1
    /\ store.rows["daily_summary"][1]["warned_5"] = 0
    /\ store' = [store EXCEPT !.rows["daily_summary"][1] =
                    [@ EXCEPT !["gaming_active"] = 0, !["gaming_time"] = 3630,
                              !["warned_5"] = 1]]
    /\ OnStore

NextMig == MigrateStore \/ StoreSetSchedule \/ StoreUpdateUserState

SpecMig == InitMig /\ [][NextMig]_vars

\* The file without the count of the runs
Content(S) == [S EXCEPT !.runs = 0]

\* C22: a run of migrate_db on a file it has already migrated is a no-op:
\* the tables, their columns, the indexes and every row (the state fields
\* of the daily summary, the schedules, the daily limits, the templates and
\* the configuration rows) are after the run what they were before it.
C22_MigrationIdempotent ==
    [][(store.runs >= 1 /\ store'.runs = store.runs + 1)
          => Content(store') = Content(store)]_vars

\* The third run was on a file of an older version with the legacy columns,
\* whose schedule and summary state were written after the first run
C22_Witness ==
    /\ store.runs = MaxRuns
    /\ "weekday_start" \in store.cols["user_limits"]
    /\ store.rows["user_limits"][1]["schedule"] = AllOnes
    /\ store.rows["user_limits"][1]["weekday_start"] = 15
    /\ store.rows["daily_summary"][1]["warned_5"] = 1
    /\ Len(store.rows["message_templates"]) = Len(DefaultTemplates)

-----------------------------------------------------------------------------
(* The administrator's commands on the catalogue, beside the discovery *)

\* ActivityDB.add_pattern as "playtimed patterns add" calls it: the state is
\* the default 'active', the category the one given
AddPattern(pat, rx, name, category, cpuThreshold) ==
    Append(pat, PatternRow(rx, name, category, "active", cpuThreshold))

\* set_pattern_state that writes the category and leaves monitor_state
PromotedCategoryOnly(pat, id, state, category) ==
    [pat EXCEPT ![id].category = IF category # NoCategory THEN category ELSE @]

\* ActivityDB.set_pattern_state(pattern_id, state, category): "UPDATE ... SET
\* monitor_state = ?", and "category = ?" with a category given
Promoted(pat, id, state, category) ==
    [pat EXCEPT ![id].monitor_state = state,
                ![id].category = IF category # NoCategory THEN category ELSE @]

\* ActivityDB.update_pattern(pattern_id, enabled=e)
UpdatePatternEnabled(pat, id, e) == [pat EXCEPT ![id].enabled = e]

\* A command that writes the catalogue and nothing else
WritePatterns(pat) ==
    /\ patterns' = pat
    /\ UNCHANGED <<clock, alive, dbMode, userLimits, summary, hourly, sessions,
                   events, seenPids, mode, users, activeGames, candidates,
                   strictPending, loopCount, running, messageLog, tickLog,
                   signalled, store, sinceWrite, browserCandidates,
                   born>>

\* playtimed patterns add miner Miner gaming (once)
PatternsAdd ==
    /\ \A i \in 1..Len(patterns) : patterns[i].name # s_Miner
    /\ WritePatterns(AddPattern(patterns, Rx(s_miner, FALSE, FALSE), s_Miner,
                                "gaming", 5))

\* The rows the commands below are given: those the daemon or the
\* administrator added to the seeds
AddedIds == {i \in 1..Len(patterns) : i > Len(SeedAndCatchAll)}

\* playtimed discover promote <id> gaming
DiscoverPromote ==
    \E id \in AddedIds :
        /\ patterns[id].monitor_state # "active"
        /\ WritePatterns(Promoted(patterns, id, "active", "gaming"))

\* playtimed discover ignore <id>, playtimed discover disallow <id>
DiscoverIgnore ==
    \E id \in AddedIds :
        /\ patterns[id].monitor_state # "ignored"
        /\ WritePatterns(Promoted(patterns, id, "ignored", NoCategory))

DiscoverDisallow ==
    \E id \in AddedIds :
        /\ patterns[id].monitor_state # "disallowed"
        /\ WritePatterns(Promoted(patterns, id, "disallowed", NoCategory))

\* playtimed patterns disable <id>, playtimed patterns enable <id>
PatternsDisable ==
    \E id \in AddedIds :
        /\ patterns[id].enabled
        /\ WritePatterns(UpdatePatternEnabled(patterns, id, FALSE))

PatternsEnable ==
    \E id \in AddedIds :
        /\ ~patterns[id].enabled
        /\ WritePatterns(UpdatePatternEnabled(patterns, id, TRUE))

\* factorio, which the sampling discovers, busy in every scan
RunLoopPat ==
    /\ clock < MaxClock
    /\ LoopBody([p \in Pids |-> IF p = 24 /\ p \in alive THEN 40 ELSE 0], FALSE, 0)

FactorioRuns == StartProc(24)

NextPat ==
    \/ RunLoopPat
    \/ FactorioRuns
    \/ PatternsAdd
    \/ DiscoverPromote
    \/ DiscoverIgnore
    \/ DiscoverDisallow
    \/ PatternsDisable
    \/ PatternsEnable

SpecPat == InitDisc /\ [][NextPat]_vars

\* C23: after any sequence of discoveries of the daemon and of the commands
\* patterns add, discover promote, ignore, disallow, patterns enable and
\* disable, every row of the catalogue in state discovered has no category.
C23_DiscoveredHasNoCategory ==
    \A i \in 1..Len(patterns) :
        patterns[i].monitor_state = "discovered" => patterns[i].category = NoCategory

\* The daemon discovered factorio after the administrator added and
\* ignored a row, and the discovered row has been disabled
C23_Witness ==
    \E i, j \in 1..Len(patterns) :
        /\ i < j
        /\ patterns[i].name = s_Miner
        /\ patterns[i].monitor_state = "ignored"
        /\ patterns[j].monitor_state = "discovered"
        /\ patterns[j].owner = "anders"
        /\ ~patterns[j].enabled

-----------------------------------------------------------------------------
(* The loop of run with two users: exceptions and the shutdown signal *)

\* anders and bea monitored, normal mode, every hour after Monday outside
\* the schedule: a game found then makes the tick of its user raise
InitLoop ==
    InitFor({"anders", "bea"}, {"normal"}, SeedPatterns, {MondayOnly},
            {<<120, 120, 120, 120, 120, 120, 120>>}, {NoRow})

\* The points of an iteration where the signal can arrive: before anders,
\* before bea, after bea (-1: it does not arrive)
SignalPoints == {-1, 0, 1, 2}

RunLoopLoop ==
    /\ clock < MaxClock
    /\ \E cpu \in CpuReadings(GamePids), at \in SignalPoints :
          LoopBodyOn([World EXCEPT !.sigAt = at], cpu, FALSE, 0)

NextLoop == RunLoopLoop \/ HandleSignal \/ GameStarts \/ GameExits

SpecLoop == InitLoop /\ [][NextLoop]_vars

\* The positions of an entry with the given tag and text in the log
At(log, tag, text) == {i \in 1..Len(log) : log[i][1] = tag /\ log[i][2] = text}

\* The position of user in the sequence of the users, 0 if it is not there
UserPos(userSeq, user) ==
    IF \E k \in 1..Len(userSeq) : userSeq[k] = user
    THEN CHOOSE k \in 1..Len(userSeq) : userSeq[k] = user
    ELSE 0

\* C24: an exception raised in the tick of a user is caught at the perimeter
\* of that user: the users after it in the list are processed in the same
\* iteration, and the loop goes on to the next iteration unless a shutdown
\* signal arrived.
C24_ExceptionPerimeter ==
    [][loopCount' # loopCount =>
          \A i \in 1..Len(tickLog') :
              tickLog'[i][1] = "raise" =>
                  \E u \in AllUsers :
                      /\ \E s \in At(tickLog', "user", u),
                            c \in At(tickLog', "caught", u) :
                            /\ s < i /\ i < c
                            /\ \A j \in (s + 1)..(c - 1) : tickLog'[j][1] # "user"
                      /\ \A k \in 1..Len(users') :
                            k > UserPos(users', u) =>
                                \E n \in At(tickLog', "user", users'[k]) : n > i
                      /\ (At(tickLog', "shutdown", "SIGTERM") = {} => running') ]_vars

\* The tick of anders raised, bea was processed after it, the daemon runs
C24_Witness ==
    /\ At(tickLog, "raise", "TypeError") # {}
    /\ At(tickLog, "caught", "anders") # {}
    /\ \E n \in At(tickLog, "user", "bea") :
          \A c \in At(tickLog, "caught", "anders") : c < n
    /\ running

\* C25: when the shutdown signal arrives in an iteration, at whichever
\* point, every user of the list is still processed in that iteration, and
\* once the signal has arrived no further iteration starts.
C25_ShutdownCompletesTick ==
    [][/\ ~running => (loopCount' = loopCount /\ tickLog' = tickLog /\ ~running')
       /\ (At(tickLog', "shutdown", "SIGTERM") # {} /\ loopCount' # loopCount) =>
              /\ \A k \in 1..Len(users') : At(tickLog', "user", users'[k]) # {}
              /\ ~running' ]_vars

\* The signal arrived between anders and bea, anders' tick having raised;
\* bea was processed and the loop has ended
C25_Witness ==
    /\ ~running
    /\ \E sd \in At(tickLog, "shutdown", "SIGTERM") :
          /\ \E a \in At(tickLog, "user", "anders") : a < sd
          /\ \E b \in At(tickLog, "user", "bea") : sd < b
    /\ At(tickLog, "caught", "anders") # {}

-----------------------------------------------------------------------------
(* The reload of every tenth iteration *)

\* The modes the administrator writes (playtimed mode <m>)
WrittenModes == {"normal", "passthrough"}

\* The loop of run keeps iterating; the model's clock stops at ClockCap
RunLoopReload == LoopBody([p \in Pids |-> 0], FALSE, 0)

ModeSet == \E m \in WrittenModes : SetMode(m)

NextReload == RunLoopReload \/ ModeSet \/ HandleReload \/ HandleSignal \/ Start

SpecReload == InitWith({"normal"}, SeedPatterns, {AllOnes},
                       {<<120, 120, 120, 120, 120, 120, 120>>}, {NoRow})
              /\ [][NextReload]_vars

\* C26: without any signal, the mode written to daemon_config while the
\* daemon runs is the daemon's mode from the tenth iteration begun after the
\* write on: that iteration already scans with it, and the daemon keeps it.
C26_ReloadWithinTenTicks ==
    [][(running' /\ sinceWrite' >= ReloadEvery) =>
          /\ mode' = dbMode'
          /\ (loopCount' # loopCount =>
                \A i \in 1..Len(tickLog') :
                    tickLog'[i][1] = "unknown" => tickLog'[i][2] = dbMode) ]_vars

\* The mode was written just after a reload of the loop; the tenth
\* iteration after the write reloaded it
C26_Witness ==
    /\ running
    /\ sinceWrite = ReloadEvery
    /\ loopCount = 0
    /\ dbMode = "passthrough"
    /\ mode = "passthrough"
    /\ \E i \in 1..Len(tickLog) :
          tickLog[i][1] = "unknown" /\ tickLog[i][2] = "passthrough"
    /\ At(tickLog, "intent", "mode_change") # {}

-----------------------------------------------------------------------------
(* Termination of a process tree *)

\* A game and the shell it has started
KillGame == 21
KillShell == 26

\* The sets of processes psutil may refuse to signal during an iteration
DeniedSets == {{}, {KillGame}, {KillShell}}

\* No gaming time on any day, or one minute on each
InitKill ==
    InitWith({"normal"}, SeedPatterns, {AllOnes},
             {<<0, 0, 0, 0, 0, 0, 0>>, <<1, 1, 1, 1, 1, 1, 1>>}, {NoRow})

RunLoopKill ==
    /\ clock < MaxClock
    /\ \E cpu \in CpuReadings({KillGame}), slow \in BOOLEAN, D \in DeniedSets :
          LoopBodyOn([World EXCEPT !.denied = D], cpu, slow, 0)

KillGameStarts == \E p \in {KillGame, KillShell} : StartProc(p)

KillGameExits == \E p \in {KillGame, KillShell} : ExitProc(p)

NextKill == RunLoopKill \/ KillGameStarts \/ KillGameExits

SpecKill == InitKill /\ [][NextKill]_vars

\* C27: during _kill_process a descendant of the process that
\* _is_excluded_process excludes is sent neither SIGTERM nor SIGKILL.
C27_ExcludedDescendantUnsignalled ==
    \A i \in 1..Len(tickLog) :
        tickLog[i][1] = "child" =>
            ~IsExcludedProcess(ProcName(tickLog[i][3]), ProcCmdline(tickLog[i][3]),
                               tickLog[i][3])

\* The process _kill_process was called for when it signalled p
KillRoot(p) == IF ProcPpid(p) \in {KillGame} THEN ProcPpid(p) ELSE p

\* The attempts of _kill_process on pid in the log of an iteration: its
\* first signal to the process, sent or refused
Attempts(log, pid) ==
    {i \in 1..Len(log) : /\ log[i][1] \in {"signal", "denied"}
                         /\ log[i][2] = "SIGTERM"
                         /\ log[i][3] = pid}

\* C28: when a signal of _kill_process is refused with AccessDenied, the
\* events table still gets the terminated event of the attempt, and the same
\* iteration of the loop makes no second attempt on the process.
C28_DeniedKillRecordedOnce ==
    [][loopCount' # loopCount =>
          \A i \in 1..Len(tickLog') :
              tickLog'[i][1] = "denied" =>
                  /\ \E e \in events' :
                        e.type = "terminated" /\ e.pid = KillRoot(tickLog'[i][3])
                  /\ Cardinality(Attempts(tickLog', KillRoot(tickLog'[i][3]))) <= 1 ]_vars

-----------------------------------------------------------------------------
(* Sessions of games that end *)

\* Two games that start and exit
EndGames == {21, 23}

\* Normal mode, two hours a day, every hour allowed or Monday only
InitEnded ==
    InitWith({"normal"}, SeedPatterns, {AllOnes, MondayOnly},
             {<<120, 120, 120, 120, 120, 120, 120>>}, {NoRow})

RunLoopEnded ==
    /\ clock < MaxClock
    /\ \E cpu \in CpuReadings(EndGames) : LoopBody(cpu, FALSE, 0)

EndGameStarts == \E p \in EndGames : StartProc(p)

EndGameExits == \E p \in EndGames : ExitProc(p)

NextEnded == RunLoopEnded \/ EndGameStarts \/ EndGameExits

SpecEnded == InitEnded /\ [][NextEnded]_vars

\* The pids _find_gaming_processes returned in the iteration that wrote log
GamingSet(log) == {log[i][3] : i \in {j \in 1..Len(log) : log[j][1] = "game"}}

\* C31: when a pid of the previous iteration's active_games is not among the
\* games the iteration finds, its open sessions row is closed in that
\* iteration with end_reason = natural; a sessions row that is closed is
\* never changed, so an enforced session is not relabelled natural.
C31_EndedSessionNatural ==
    [][ IsTick =>
          /\ \A u \in AllUsers :
                At(tickLog', "user", u) # {} =>
                    \A p \in DOMAIN activeGames[u] \ GamingSet(tickLog') :
                        LET id == activeGames[u][p].session_id
                        IN  (id # 0 /\ sessions[id].open) =>
                                /\ ~sessions'[id].open
                                /\ sessions'[id].end_reason = "natural"
          /\ \A i \in 1..Len(sessions) :
                ~sessions[i].open => sessions'[i] = sessions[i] ]_vars

-----------------------------------------------------------------------------
(* The deletion of a pattern *)

\* ActivityDB.delete_pattern(pattern_id) for the newest row of
\* process_patterns: "DELETE FROM process_patterns WHERE id = ?"
DeletePattern(pat, id) == SubSeq(pat, 1, id - 1)

\* "FOREIGN KEY (pattern_id) REFERENCES process_patterns(id) ON DELETE
\* CASCADE" on seen_pids. get_connection opens the file with
\* sqlite3.connect and sets no "PRAGMA foreign_keys": the clause acts only
\* where the SQLite library was compiled to enforce foreign keys by default
\* (enforced).
CascadeSeen(seen, id, enforced) ==
    IF enforced THEN {r \in seen : r[1] # id} ELSE seen

\* playtimed patterns delete <id>, for the pattern the administrator added
PatternsDelete ==
    \E id \in {Len(patterns)} \ (1..Len(SeedPatterns)), enforced \in BOOLEAN :
        /\ patterns' = DeletePattern(patterns, id)
        /\ seenPids' = CascadeSeen(seenPids, id, enforced)
        /\ UNCHANGED <<clock, alive, dbMode, userLimits, summary, hourly, sessions,
                       events, mode, users, activeGames, candidates,
                       strictPending, loopCount, running, messageLog, tickLog,
                       signalled, store, sinceWrite, browserCandidates,
                   born>>

\* The miner, which the added pattern matches, busy or idle in a scan
RunLoopDel ==
    /\ clock < MaxClock
    /\ \E cpu \in CpuReadings({Miner}) : LoopBody(cpu, FALSE, 0)

NextDel == RunLoopDel \/ MinerStarts \/ MinerExits \/ PatternsAdd \/ PatternsDelete

SpecDel ==
    InitWith({"normal"}, SeedPatterns, {AllOnes},
             {<<120, 120, 120, 120, 120, 120, 120>>}, {NoRow})
    /\ [][NextDel]_vars

\* C32: after any sequence of record_pid_seen and delete_pattern calls, every
\* row of seen_pids has the id of a row of process_patterns.
C32_SeenPidsReferencePattern ==
    \A r \in seenPids : r[1] \in 1..Len(patterns)

-----------------------------------------------------------------------------
(* schedule set *)

\* A spec with an unknown day, an hour outside 0..23 or an action that is
\* neither + nor -
Malformed(spec) ==
    \/ spec.action \notin {"+", "-"}
    \/ DayIndex(spec.dstart) = -1
    \/ DayIndex(spec.dend) = -1
    \/ ~spec.all /\ (spec.hstart \notin 0..23 \/ spec.hend \notin 0..23)

\* The specs of the list that name the slot of day d, hour h
Naming(specs, d, h) ==
    {k \in 1..Len(specs) :
        /\ d \in DayIndex(specs[k].dstart)..DayIndex(specs[k].dend)
        /\ specs[k].all \/ h \in specs[k].hstart..specs[k].hend}

\* The schedule with exactly the named slots day * 24 + hour set, each by
\* the last spec that names it
SlotsSet(schedule, specs) ==
    [i \in 1..Len(schedule) |->
        IF Naming(specs, (i - 1) \div 24, (i - 1) % 24) = {}
        THEN schedule[i]
        ELSE IF specs[CHOOSE k \in Naming(specs, (i - 1) \div 24, (i - 1) % 24) :
                         \A j \in Naming(specs, (i - 1) \div 24, (i - 1) % 24) : j <= k]
                     .action = "+"
             THEN "1" ELSE "0"]

\* C33: schedule set with a list of well-formed specs writes exactly the
\* slots day * 24 + hour the specs name, '1' for + and '0' for -, and no
\* other slot; with an unknown day, an hour outside 0..23 or a bad action in
\* any spec the command is refused and writes nothing.
C33_ScheduleSetExact ==
    \A specs \in SpecLists :
        userLimits["anders"].present =>
            IF \E k \in 1..Len(specs) : Malformed(specs[k])
            THEN ~SetAccepted(specs)
            ELSE /\ SetAccepted(specs)
                 /\ ApplySpecs(userLimits["anders"].schedule, specs)
                       = SlotsSet(userLimits["anders"].schedule, specs)

(***************************************************************************)
(* The browser scan                                                        *)
(***************************************************************************)

\* What the browsers of anders can show in a tick: a Chrome session with a
\* site and a download host of the browser, the same site in Firefox; a site
\* in Firefox and in two windows, one of them without a known title; a
\* Chrome page of the browser itself and a captcha host in a Firefox window
WebSources ==
    { Sources(<<>>, <<>>, <<>>),
      Sources(<<Url(s_ixl_com, "/math"), Url(s_a_gvt1_com, "/edgedl")>>,
              <<Url(s_ixl_com, "/")>>, <<>>),
      Sources(<<>>, <<Url(s_poki_com, "/")>>,
              <<<<s_poki_com, "chrome">>, <<s_unknown_tab, "chrome">>>>),
      Sources(<<Url(s_chrome, "/newtab")>>, <<>>,
              <<<<s_recaptcha_net, "firefox">>>>) }

\* Normal mode, anders monitored; poki.com is a browser pattern the
\* administrator added for every user
InitWeb ==
    InitWith({"normal"},
             Append(SeedAndCatchAll,
                    BrowserRow(s_poki_com, "gaming", "active", NoOwner, NoTime)),
             {AllOnes}, {<<120, 120, 120, 120, 120, 120, 120>>}, {NoRow})

RunLoopWeb ==
    /\ clock < MaxClock
    /\ \E src \in WebSources :
          LoopBodyOn([World EXCEPT !.web["anders"] = src],
                     [p \in Pids |-> 0], FALSE, 0)

NextWeb == RunLoopWeb \/ PatternsDisable \/ PatternsEnable

SpecWeb == InitWeb /\ [][NextWeb]_vars

\* The browser id of the first source that shows the domain: the Chrome
\* session, the Firefox session, the windows
FirstSource(src, domain) ==
    IF \E i \in 1..Len(src.chrome) : Netloc(src.chrome[i]) = domain THEN "chrome"
    ELSE IF \E i \in 1..Len(src.firefox) : Netloc(src.firefox[i]) = domain
    THEN "firefox"
    ELSE WindowDomains(src.windows)[
             CHOOSE i \in 1..Len(WindowDomains(src.windows)) :
                 WindowDomains(src.windows)[i][1] = domain][2]

\* The scans of the tick that resolved the browsers of a user
Resolutions(log) == {i \in 1..Len(log) : log[i][1] = "browser"}

\* C34: what the resolver makes of the session files and the window titles
\* of a user holds each domain at most once, with the browser id of the first
\* source that showed it (Chrome session, Firefox session, windows), and holds
\* no excluded infrastructure domain, by exact or by suffix match.
C34_ResolvedDomains ==
    \A i \in Resolutions(tickLog) :
        \A a \in 1..Len(tickLog[i][3]) :
            /\ \A b \in 1..Len(tickLog[i][3]) :
                  tickLog[i][3][a][1] = tickLog[i][3][b][1] => a = b
            /\ tickLog[i][3][a][2] = FirstSource(tickLog[i][2], tickLog[i][3][a][1])
            /\ ~IsExcludedDomain(tickLog[i][3][a][1])

\* The same without the exclusion of the infrastructure domains
C34_ResolvedOnceFirstSource ==
    \A i \in Resolutions(tickLog) :
        \A a \in 1..Len(tickLog[i][3]) :
            /\ \A b \in 1..Len(tickLog[i][3]) :
                  tickLog[i][3][a][1] = tickLog[i][3][b][1] => a = b
            /\ tickLog[i][3][a][2] = FirstSource(tickLog[i][2], tickLog[i][3][a][1])

\* C36: while a pattern is disabled no tick updates its last_seen, its
\* unique_pid_count or its total_runtime_seconds, be it a process pattern or
\* a browser_domain pattern.
C36_DisabledPatternUntouched ==
    [][ IsTick =>
          \A i \in 1..Len(patterns) :
              ~patterns[i].enabled =>
                  /\ patterns'[i].last_seen = patterns[i].last_seen
                  /\ patterns'[i].unique_pid_count = patterns[i].unique_pid_count
                  /\ patterns'[i].total_runtime_seconds
                        = patterns[i].total_runtime_seconds ]_vars

(***************************************************************************)
(* Candidates of the process discovery that are sampled no more            *)
(***************************************************************************)

\* factorio is busy or idle until the model's clock stops at ClockCap and idle
\* from then on, and may exit; the loop of run keeps iterating
RunLoopStale ==
    \E cpu \in CpuReadings(IF clock < ClockCap THEN {24} ELSE {}) :
        LoopBody(cpu, FALSE, 0)

FactorioExits == ExitProc(24)

NextStale == RunLoopStale \/ FactorioRuns \/ FactorioExits

SpecStale == InitDisc /\ [][NextStale]_vars /\ WF_loopCount(Iterates)

\* The candidates whose samples all lie outside the window ending now
StaleCandidates ==
    {k \in DOMAIN candidates :
        \A i \in 1..Len(candidates[k].samples) :
            clock - candidates[k].samples[i] > SampleWindowSeconds}

\* C35: a candidate of the process discovery whose most recent sample is
\* older than sample_window_seconds is eventually removed from the candidates
\* map by the ticks that follow, also when the process is never sampled again.
C35_StaleCandidateRemoved ==
    (<<"anders", s_factorio>> \in StaleCandidates)
        ~> (<<"anders", s_factorio>> \notin DOMAIN candidates)

(***************************************************************************)
(* The enforcement paths of one tick                                       *)
(***************************************************************************)

\* The processes the tick told the user it blocked at launch, and those it
\* told the user it terminated at the end of the quota
BlockedNow(log) == {p \in Pids : Idx(log, <<"intent", "blocked_launch", p>>) # {}}

EnforcedNow(log) == {p \in Pids : Idx(log, <<"intent", "enforcement", p>>) # {}}

\* The enforcements counter of a daily summary row, 0 when the row is missing
EnforcementsOf(sum, k) == IF k \in DOMAIN sum THEN sum[k].enforcements ELSE 0

\* C37: within one tick a process is put through at most one enforcement
\* path, so a game blocked at launch for an exhausted quota is not run through
\* the time_expired, grace period and enforcement sequence as well, and it is
\* counted at most once in the daily enforcements counter.
C37_OneEnforcementPath ==
    [][ IsTick =>
          /\ BlockedNow(tickLog') \cap EnforcedNow(tickLog') = {}
          /\ \A k \in DOMAIN summary' :
                summary'[k].enforcements - EnforcementsOf(summary, k)
                    <= Cardinality(BlockedNow(tickLog') \cup EnforcedNow(tickLog')) ]_vars

(***************************************************************************)
(* SIGHUP in the middle of a scan                                          *)
(***************************************************************************)

\* Normal mode, the miner disallowed
InitHup ==
    InitWith({"normal"}, SeedAndDisallowed, {AllOnes},
             {<<120, 120, 120, 120, 120, 120, 120>>}, {NoRow})

\* An iteration of the loop; hup tells whether SIGHUP arrives in its scan
RunLoopHup ==
    /\ clock < MaxClock
    /\ \E cpu \in CpuReadings({Miner}), hup \in BOOLEAN :
          LoopBodyOn([World EXCEPT !.hup = hup], cpu, FALSE, 0)

\* playtimed mode <m> writes the row (ModeSet); the signal it sends arrives
\* in a scan or between two iterations
NextHup == RunLoopHup \/ MinerStarts \/ ModeSet \/ HandleReload

SpecHup == InitHup /\ [][NextHup]_vars

\* The processes the tick sent a signal to
SignalledNow(log) ==
    {p \in Pids : \E i \in 1..Len(log) : log[i][1] = "signal" /\ log[i][3] = p}

\* C38: SIGHUP may be handled at any point of a tick, and the decisions taken
\* for one process within a scan use one mode value: a tick that was not in
\* passthrough mode when it judged a process fires blocked_launch or
\* enforcement for it only together with its kill.
C38_OneModePerProcess ==
    [][ (IsTick /\ mode # "passthrough" /\ (loopCount + 1) % ReloadEvery # 0) =>
          \A p \in BlockedNow(tickLog') \cup EnforcedNow(tickLog') :
              p \in SignalledNow(tickLog') ]_vars

(***************************************************************************)
(* Strict mode and the reuse of a pid                                      *)
(***************************************************************************)

\* Strict mode, anders monitored, every hour allowed
InitReuse ==
    InitWith({"strict"}, SeedPatterns, {AllOnes},
             {<<120, 120, 120, 120, 120, 120, 120>>}, {NoRow})

\* factorio of anders, which no pattern matches, is busy or idle
RunLoopReuse ==
    /\ clock < MaxClock
    /\ \E cpu \in CpuReadings({24}) : LoopBody(cpu, FALSE, 0)

\* factorio starts and exits between the ticks: the process that starts
\* after an exit is a new one that holds the same pid
FactorioStartsAt == StartProcAt(24)

NextReuse == RunLoopReuse \/ FactorioStartsAt \/ FactorioExits

SpecReuse == InitReuse /\ [][NextReuse]_vars

\* C39: every termination of a process in strict mode is preceded by a
\* strict_warning for that same process at least strict_grace_seconds
\* earlier, also across switches of the mode and when a new process holds the
\* pid of one that was warned.
C39_StrictKillWarnedSameProcess ==
    [][ IsTick =>
          \A p \in EnforcedNow(tickLog') :
              /\ p \in DOMAIN strictPending
              /\ strictPending[p].warned_at + StrictGraceSeconds <= clock
              /\ born[p] <= strictPending[p].warned_at ]_vars

(***************************************************************************)
(* A user who is disabled while the daemon runs                            *)
(***************************************************************************)

\* Normal mode, anders monitored with one minute or two hours a day
InitOff ==
    InitWith({"normal"}, SeedPatterns, {AllOnes},
             {<<1, 1, 1, 1, 1, 1, 1>>, <<120, 120, 120, 120, 120, 120, 120>>},
             {NoRow})

RunLoopOff ==
    /\ clock < MaxClock
    /\ \E cpu \in CpuReadings(GamePids) : LoopBody(cpu, FALSE, 0)

\* playtimed user disable anders, playtimed user enable anders, between ticks
NextOff == RunLoopOff \/ GameStarts \/ GameExits \/ AdminUserEnable

SpecOff == InitOff /\ [][NextOff]_vars

\* The row of the user is missing or has enabled = 0
Off(user) == ~userLimits[user].present \/ userLimits[user].enabled = 0

\* The entries of a tick's log that tell of a process of the user
ProcessEntries(log, user) ==
    {i \in 1..Len(log) : log[i][1] # "user" /\ log[i][3] \in Pids
                              /\ ProcUser(log[i][3]) = user}

\* The rows of a table of records that belong to the user
RowsOf(rows, user) == {r \in rows : r.user = user}

\* The entries of a table keyed by tuples that hold the user at position n
KeyedBy(tab, n, user) == [k \in {x \in DOMAIN tab : x[n] = user} |-> tab[k]]

\* C40: for a user whose limits row is missing or has enabled = 0 a tick
\* changes nothing, from the tick after the row was disabled on and not only
\* after the next reload of the user list: none of the user's processes is
\* scanned, discovered or terminated, no session or event row is written, and
\* the user's daily summary rows stay as they are.
C40_DisabledUserUntouched ==
    [][ IsTick =>
          \A u \in AllUsers :
              Off(u) =>
                  /\ ProcessEntries(tickLog', u) = {}
                  /\ {p \in signalled' \ signalled : ProcUser(p) = u} = {}
                  /\ {p \in alive \ alive' : ProcUser(p) = u} = {}
                  /\ RowsOf({sessions'[i] : i \in 1..Len(sessions')}, u)
                        = RowsOf({sessions[i] : i \in 1..Len(sessions)}, u)
                  /\ RowsOf(events', u) = RowsOf(events, u)
                  /\ KeyedBy(summary', 2, u) = KeyedBy(summary, 2, u)
                  /\ KeyedBy(hourly', 3, u) = KeyedBy(hourly, 3, u)
                  /\ KeyedBy(messageLog', 2, u) = KeyedBy(messageLog, 2, u)
                  /\ KeyedBy(candidates', 1, u) = KeyedBy(candidates, 1, u)
                  /\ {i \in 1..Len(patterns') : patterns'[i].owner = u}
                        = {i \in 1..Len(patterns) : patterns[i].owner = u}
                  /\ activeGames'[u] = activeGames[u] ]_vars

\* A tick has just run with anders disabled and still in the user list,
\* while a game of anders with an open session is running.
C40_Witness ==
    /\ Off("anders")
    /\ At(tickLog, "user", "anders") # {}
    /\ 21 \in alive
    /\ \E i \in 1..Len(sessions) : sessions[i].user = "anders" /\ sessions[i].open

====
